---- MODULE Spec2Model ----
(***************************************************************************)
(* A model of contracts/fields.py: the Field load/dump state machine, the  *)
(* concrete IntegerField / StringField conversions, and the Contract       *)
(* construction and single-item load/dump passes.                          *)
(*                                                                         *)
(* Python objects are records; object identity is an index into `heap`     *)
(* (field objects) or `contracts` (contract instances).  Every operation   *)
(* of the library is one action that runs the whole call and leaves its    *)
(* outcome, and the order of the calls it made, in `call`.                 *)
(***************************************************************************)
EXTENDS Integers, Sequences, FiniteSets, TLC

VARIABLES
    heap,       \* field id -> field object (the objects created by Field(...))
    lists,      \* list id -> the validators held by that Python list object
    made,       \* field id -> the constructor call (class, keywords) that made it
    contracts,  \* sequence of the contract instances constructed so far
    classes,    \* the contract classes defined so far, in order: for each its
                \* name, its bases and its _declared_fields
    call        \* the last completed operation: what was called and what it did

vars == <<heap, lists, made, contracts, classes, call>>

(***************************************************************************)
(* Bounds of the model.                                                    *)
(***************************************************************************)
MaxValidators == 2      \* longest validators list given to a field
MaxContracts == 2       \* contract instances constructed in one behaviour

(***************************************************************************)
(* Python values.  Every value is a record of the same shape so that any   *)
(* two values can be compared: t is the type tag, i the integer payload,   *)
(* s the text payload (a sequence of one-character strings).               *)
(***************************************************************************)
missing == [t |-> "missing", i |-> 0, s |-> <<>>]
None == [t |-> "NoneType", i |-> 0, s |-> <<>>]
True == [t |-> "bool", i |-> 1, s |-> <<>>]
False == [t |-> "bool", i |-> 0, s |-> <<>>]
IntV(n) == [t |-> "int", i |-> n, s |-> <<>>]
StrV(chars) == [t |-> "str", i |-> 0, s |-> chars]
\* a zero-argument callable (a default producer) that returns IntV(n)
CallableV(n) == [t |-> "function", i |-> n, s |-> <<>>]
callable(v) == v.t = "function"

\* Object references: a field object, a contract instance, or no object (None).
NoRef == [o |-> "None", id |-> 0]
FieldRef(fid) == [o |-> "field", id |-> fid]
ContractRef(cid) == [o |-> "contract", id |-> cid]

\* Names: NoName is Python's None used where a name is expected.
NoName == "<None>"
Falsy(name) == name = NoName \/ name = ""

Tri == {"None", "True", "False"}    \* an optional boolean keyword argument

(***************************************************************************)
(* Exceptions and call outcomes.                                           *)
(* A ValidationError has a shape: "str" (one message), "list" (a sequence  *)
(* of errors) or "dict" (a mapping key -> error).                          *)
(***************************************************************************)
Msg(tpl, args) == [tpl |-> tpl, args |-> args]
NoMsg == Msg("", <<>>)
Exc(type, msg) == [type |-> type, shape |-> "none", message |-> msg]
ValidationError(shape, message) ==
    [type |-> "ValidationError", shape |-> shape, message |-> message]
NoExc == Exc("none", NoMsg)

Ret(v) == [k |-> "return", v |-> v, e |-> NoExc]
Raise(e) == [k |-> "raise", v |-> missing, e |-> e]
IsValidationError(out) == out.k = "raise" /\ out.e.type = "ValidationError"

(***************************************************************************)
(* Error messages: kind -> entry.  An entry is a text template or, when    *)
(* isdict, a structured (mapping) message.                                 *)
(***************************************************************************)
Text(tpl) == [isdict |-> FALSE, tpl |-> tpl]
Structured(tpl) == [isdict |-> TRUE, tpl |-> tpl]
NoMessages == [k \in {} |-> Text("")]
\* dict.update
Update(d, other) ==
    [k \in DOMAIN d \cup DOMAIN other |-> IF k \in DOMAIN other THEN other[k] ELSE d[k]]

MISSING_ERROR_MESSAGE ==
    "ValidationError raised by {class_name}, but error key {key} does not exist in the error_messages dictionary."

default_error_messages(cls) ==
    CASE cls = "Field" ->
            [required |-> Text("This field is required."),
             null |-> Text("This field may not be null."),
             validator_failed |-> Text("Invalid value.")]
      [] cls = "IntegerField" ->
            [invalid |-> Text("A valid integer is required."),
             max_value |-> Text("Must be at most {max_value}."),
             min_value |-> Text("Must be at least {min_value}.")]
      [] cls = "StringField" ->
            [blank |-> Text("This field may not be blank."),
             max_length |-> Text("Longer than maximum length {max_length}."),
             min_length |-> Text("Shorter than minimum length {min_length}.")]
      [] cls = "Contract" ->
            [invalid |-> Text("Invalid data. Expected a dictionary, but got {datatype}.")]
      [] OTHER -> NoMessages

\* cls.__mro__ without object; UserField is a subclass of Field written by a
\* caller of the library, which declares no messages of its own.
mro(cls) == IF cls = "Field" THEN <<"Field">> ELSE <<cls, "Field">>

RECURSIVE CollectMessages(_, _, _)
CollectMessages(chain, n, messages) ==
    IF n = 0 THEN messages
    ELSE CollectMessages(chain, n - 1,
                         Update(messages, default_error_messages(chain[Len(chain) - n + 1])))

Reverse(seq) == [n \in 1..Len(seq) |-> seq[Len(seq) - n + 1]]

(***************************************************************************)
(* Validators.  A validator supplied by the caller is known by what it     *)
(* does when called (beh); RangeValidator and LengthValidator are the      *)
(* library's own, built by IntegerField / StringField.                     *)
(***************************************************************************)
UserBehaviours == {"none", "true", "false", "flat", "mapping", "other"}
UserValidator(beh, id) ==
    [beh |-> beh, id |-> id, lo |-> None, hi |-> None, error_messages |-> NoMessages]
RangeValidator(min_value, max_value, error_messages) ==
    [beh |-> "range", id |-> 0, lo |-> min_value, hi |-> max_value,
     error_messages |-> error_messages]
LengthValidator(min_length, max_length, error_messages) ==
    [beh |-> "length", id |-> 0, lo |-> min_length, hi |-> max_length,
     error_messages |-> error_messages]

\* formatting.format_error_message(message, **kwargs)
format_error_message(entry, kwargs) == Msg(entry.tpl, kwargs)

\* The error a caller's validator raises: ValidationError("...") for "flat",
\* ValidationError({"code": ...}) for "mapping".
UserError(v) ==
    IF v.beh = "mapping"
    THEN ValidationError("dict", [k \in {"code"} |->
             ValidationError("str", Msg("validator error", <<IntV(v.id)>>))])
    ELSE ValidationError("str", Msg("validator error", <<IntV(v.id)>>))

\* Size of a value as the length validator sees it.
LenOf(value) == IF value.t = "str" THEN Len(value.s) ELSE 0

\* validator(value): the outcome of calling one validator.
CallValidator(v, value) ==
    CASE v.beh = "none" -> Ret(None)
      [] v.beh = "true" -> Ret(True)
      [] v.beh = "false" -> Ret(False)
      [] v.beh = "flat" -> Raise(UserError(v))
      [] v.beh = "mapping" -> Raise(UserError(v))
      [] v.beh = "other" -> Raise(Exc("ValueError", NoMsg))
      [] v.beh = "range" ->
            IF value.t # "int" THEN Raise(Exc("TypeError", NoMsg))
            ELSE IF v.lo # None /\ value.i < v.lo.i
            THEN Raise(ValidationError("str",
                     format_error_message(v.error_messages["min_value"], <<v.lo>>)))
            ELSE IF v.hi # None /\ value.i > v.hi.i
            THEN Raise(ValidationError("str",
                     format_error_message(v.error_messages["max_value"], <<v.hi>>)))
            ELSE Ret(None)
      [] v.beh = "length" ->
            IF value.t # "str" THEN Raise(Exc("TypeError", NoMsg))
            ELSE IF v.lo # None /\ LenOf(value) < v.lo.i
            THEN Raise(ValidationError("str",
                     format_error_message(v.error_messages["min_length"], <<v.lo>>)))
            ELSE IF v.hi # None /\ LenOf(value) > v.hi.i
            THEN Raise(ValidationError("str",
                     format_error_message(v.error_messages["max_length"], <<v.hi>>)))
            ELSE Ret(None)

(***************************************************************************)
(* Text and number conversions of Python: str(), int(), str.strip().       *)
(***************************************************************************)
Digits == <<"0", "1", "2", "3", "4", "5", "6", "7", "8", "9">>
IsDigit(c) == \E d \in 1..10 : Digits[d] = c
DigitValue(c) == (CHOOSE d \in 1..10 : Digits[d] = c) - 1
IsSpace(c) == c = " "

RECURSIVE lstrip(_)
lstrip(chars) ==
    IF chars # <<>> /\ IsSpace(Head(chars)) THEN lstrip(Tail(chars)) ELSE chars
RECURSIVE rstrip(_)
rstrip(chars) ==
    IF chars # <<>> /\ IsSpace(chars[Len(chars)])
    THEN rstrip(SubSeq(chars, 1, Len(chars) - 1)) ELSE chars
strip(chars) == rstrip(lstrip(chars))

RECURSIVE NatToStr(_)
NatToStr(n) ==
    IF n < 10 THEN <<Digits[n + 1]>> ELSE NatToStr(n \div 10) \o <<Digits[(n % 10) + 1]>>
IntToStr(n) == IF n < 0 THEN <<"-">> \o NatToStr(-n) ELSE NatToStr(n)

RECURSIVE StrToNat(_, _)
StrToNat(chars, acc) ==
    IF chars = <<>> THEN acc
    ELSE StrToNat(Tail(chars), 10 * acc + DigitValue(Head(chars)))
AllDigits(chars) == chars # <<>> /\ \A n \in 1..Len(chars) : IsDigit(chars[n])

\* str(value)
str(value) ==
    CASE value.t = "str" -> value
      [] value.t = "int" -> StrV(IntToStr(value.i))
      [] value.t = "bool" -> StrV(IF value.i = 1 THEN <<"T", "r", "u", "e">>
                                                 ELSE <<"F", "a", "l", "s", "e">>)
      [] OTHER -> StrV(<<"<", value.t, ">">>)

\* int(value): the integer, or the ValueError / TypeError int() raises
int(value) ==
    CASE value.t = "int" -> Ret(value)
      [] value.t = "bool" -> Ret(IntV(value.i))
      [] value.t = "str" ->
            LET body == strip(value.s)
                signed == body # <<>> /\ Head(body) \in {"-", "+"}
                digits == IF signed THEN Tail(body) ELSE body
            IN IF AllDigits(digits)
               THEN Ret(IntV(IF signed /\ Head(body) = "-"
                             THEN -StrToNat(digits, 0) ELSE StrToNat(digits, 0)))
               ELSE Raise(Exc("ValueError", NoMsg))
      [] OTHER -> Raise(Exc("TypeError", NoMsg))

(***************************************************************************)
(* Field construction.  The keyword arguments of a constructor are one     *)
(* record, kw; a class ignores the keywords it does not take.              *)
(* validators is a list id, or NoList for validators=None.                 *)
(***************************************************************************)
NoList == 0

\* The validators list the new field keeps: `validators or []`.
KeptList(kw, ls) ==
    IF kw.validators = NoList \/ ls[kw.validators] = <<>> THEN Len(ls) + 1 ELSE kw.validators

\* `required` of a new field: True unless a default is provided, when unset.
RequiredOf(kw) ==
    IF kw.required = "None" THEN kw.default = missing ELSE kw.required = "True"

\* A slip in the null rule: an unset allow_none is taken as False.
AllowNoneOf_ExplicitOnly(kw) == kw.allow_none = "True"

\* `allow_none` of a new field: whether the default is None, when unset.
AllowNoneOf(kw) ==
    IF kw.allow_none = "None" THEN kw.default = None ELSE kw.allow_none = "True"

\* Field.__init__: the new object and the lists after the call.
Field__init__(cls, kw, ls) ==
    LET vid == KeptList(kw, ls)
        messages == Update(CollectMessages(Reverse(mro(cls)), Len(mro(cls)), NoMessages),
                           kw.error_messages)
    IN [self |->
          [cls |-> cls,
           dump_only |-> kw.dump_only,
           load_only |-> kw.load_only,
           default |-> kw.default,
           allow_none |-> AllowNoneOf(kw),
           dump_to |-> kw.dump_to,
           load_from |-> kw.load_from,
           validators |-> vid,
           required |-> RequiredOf(kw),
           error_messages |-> messages,
           field_name |-> NoName,
           parent |-> NoRef,
           has_cached_root |-> FALSE,
           cached_root |-> NoRef,
           min_value |-> None, max_value |-> None,
           allow_blank |-> FALSE, trim_whitespace |-> TRUE,
           min_length |-> None, max_length |-> None,
           fail_key |-> kw.fail_key],
        lists |-> IF vid = Len(ls) + 1 THEN Append(ls, <<>>) ELSE ls]

\* IntegerField.__init__
IntegerField__init__(kw, ls) ==
    LET base == Field__init__("IntegerField", kw, ls)
        self == [base.self EXCEPT !.min_value = kw.min_value, !.max_value = kw.max_value]
    IN [self |-> self,
        lists |-> IF self.min_value # None \/ self.max_value # None
                  THEN [base.lists EXCEPT ![self.validators] =
                            Append(@, RangeValidator(kw.min_value, kw.max_value,
                                                     self.error_messages))]
                  ELSE base.lists]

\* StringField.__init__
StringField__init__(kw, ls) ==
    LET base == Field__init__("StringField", kw, ls)
        self == [base.self EXCEPT !.allow_blank = kw.allow_blank,
                                  !.trim_whitespace = kw.trim_whitespace,
                                  !.min_length = kw.min_length,
                                  !.max_length = kw.max_length]
    IN [self |-> self,
        lists |-> IF self.min_length # None \/ self.max_length # None
                  THEN [base.lists EXCEPT ![self.validators] =
                            Append(@, LengthValidator(self.min_length, self.max_length,
                                                      self.error_messages))]
                  ELSE base.lists]

\* cls(**kw)
New(cls, kw, ls) ==
    CASE cls = "IntegerField" -> IntegerField__init__(kw, ls)
      [] cls = "StringField" -> StringField__init__(kw, ls)
      [] OTHER -> Field__init__(cls, kw, ls)

\* The keyword arguments every constructor defaults to.
DefaultKw ==
    [dump_only |-> FALSE, load_only |-> FALSE, required |-> "None", default |-> missing,
     allow_none |-> "None", dump_to |-> NoName, load_from |-> NoName,
     error_messages |-> NoMessages, validators |-> NoList,
     min_value |-> None, max_value |-> None,
     allow_blank |-> FALSE, trim_whitespace |-> TRUE,
     min_length |-> None, max_length |-> None,
     fail_key |-> NoName]

(***************************************************************************)
(* Field operations.  `me` is a reference to the object the method is      *)
(* called on.  An operation yields its outcome and `trace`, the calls it   *)
(* made, in order: Ev("_load", 0, v), Ev("_dump", 0, v), Ev("validator",   *)
(* n, v) for the n-th validator of the list called on v, Ev("default", 0,  *)
(* None) for a call of the default producer.                               *)
(***************************************************************************)
Ev(ev, n, arg) == [ev |-> ev, n |-> n, arg |-> arg]
Obj(me) == IF me.o = "field" THEN heap[me.id] ELSE contracts[me.id]
ValidatorsOf(self) == lists[self.validators]
Done(out, trace) == [out |-> out, trace |-> trace]

\* Field.get_default
Field_get_default(me) ==
    LET self == Obj(me) IN
    IF self.default = missing THEN Done(Ret(missing), <<>>)
    ELSE IF callable(self.default)
    THEN Done(Ret(IntV(self.default.i)), <<Ev("default", 0, None)>>)
    ELSE Done(Ret(self.default), <<>>)

\* Field._fail(key, **kwargs): always raises
Field_fail(me, key, kwargs) ==
    LET self == Obj(me) IN
    IF key \notin DOMAIN self.error_messages
    THEN Raise(Exc("AssertionError",
                   format_error_message(Text(MISSING_ERROR_MESSAGE),
                                        <<StrV(<<self.cls>>), StrV(<<key>>)>>)))
    ELSE LET message == self.error_messages[key] IN
         IF message.isdict
         THEN Raise(ValidationError("dict", [k \in {"message"} |->
                        ValidationError("str", format_error_message(message, kwargs))]))
         ELSE Raise(ValidationError("str", format_error_message(message, kwargs)))

\* The loop of Field.root: follow parent to the top-level object.
RECURSIVE TopLevel(_)
TopLevel(ref) == IF Obj(ref).parent = NoRef THEN ref ELSE TopLevel(Obj(ref).parent)

\* Field.root: getattr(self, '_cached_root') has no default, so it raises
\* AttributeError while the attribute was never set; `cache` tells whether the
\* call stored the root in _cached_root.
Field_root(me) ==
    LET self == Obj(me) IN
    IF ~self.has_cached_root
    THEN [out |-> Raise(Exc("AttributeError", Msg("_cached_root", <<>>))),
          root |-> NoRef, cache |-> FALSE]
    ELSE IF self.cached_root # NoRef
    THEN [out |-> Ret(None), root |-> self.cached_root, cache |-> FALSE]
    ELSE [out |-> Ret(None), root |-> TopLevel(me), cache |-> TRUE]

\* getattr(root, 'partial', False)
PartialOf(ref) == IF ref.o = "contract" THEN contracts[ref.id].partial ELSE FALSE

\* A slip in the test of the error's shape: no error is taken as a mapping.
IsMappingError_Never(e) == FALSE

\* isinstance(err.message, dict)
IsMappingError(e) == e.shape = "dict"

\* A slip in the collection: the last error replaces the ones before it.
CollectError_KeepLast(errors, e) == <<e>>

\* errors.append(err)
CollectError(errors, e) == Append(errors, e)

\* Field._validate from the n-th validator on, with the errors collected so far.
RECURSIVE ValidateFrom(_, _, _, _, _)
ValidateFrom(me, value, n, errors, trace) ==
    LET validators == ValidatorsOf(Obj(me)) IN
    IF n > Len(validators)
    THEN Done(IF errors # <<>> THEN Raise(ValidationError("list", errors)) ELSE Ret(None),
              trace)
    ELSE LET called == CallValidator(validators[n], value)
             r == IF called.k = "return" /\ called.v = False
                  THEN Field_fail(me, "validator_failed", <<>>) ELSE called
             t == Append(trace, Ev("validator", n, value))
         IN IF r.k = "return" THEN ValidateFrom(me, value, n + 1, errors, t)
            ELSE IF r.e.type # "ValidationError" THEN Done(r, t)
            ELSE IF IsMappingError(r.e) THEN Done(r, t)
            ELSE ValidateFrom(me, value, n + 1, CollectError(errors, r.e), t)

\* Field._validate
Field_validate(me, value) == ValidateFrom(me, value, 1, <<>>, <<>>)

\* IntegerField._load
IntegerField_load(me, value) ==
    LET r == int(value) IN
    IF r.k = "raise" /\ r.e.type \in {"ValueError", "TypeError"}
    THEN Field_fail(me, "invalid", <<>>) ELSE r

\* IntegerField._dump
IntegerField_dump(me, value) == int(value)

\* A _load that never strips the text.
StringField_load_NoTrim(me, value) ==
    IF str(value).s = <<>> /\ ~Obj(me).allow_blank
    THEN IF Obj(me).allow_none THEN Ret(None) ELSE Field_fail(me, "blank", <<>>)
    ELSE Ret(str(value))

\* StringField._load
StringField_load(me, value) ==
    LET self == Obj(me)
        text == str(value)
        trimmed == IF self.trim_whitespace THEN StrV(strip(text.s)) ELSE text
    IN IF trimmed.s = <<>> /\ ~self.allow_blank
       THEN IF self.allow_none THEN Ret(None) ELSE Field_fail(me, "blank", <<>>)
       ELSE Ret(trimmed)

\* A _dump that writes the text as a literal, between quotes.
StringField_dump_Quoted(me, value) == Ret(StrV(<<"'">> \o str(value).s \o <<"'">>))

\* StringField._dump
StringField_dump(me, value) == Ret(str(value))

\* self._load(value), by the class of self.  Field._load is abstract; UserField
\* is a caller's subclass whose _load reports every value with
\* self._fail(fail_key).
Load_(me, value) ==
    LET self == Obj(me) IN
    CASE self.cls = "IntegerField" -> IntegerField_load(me, value)
      [] self.cls = "StringField" -> StringField_load(me, value)
      [] self.cls = "UserField" -> Field_fail(me, self.fail_key, <<>>)
      [] OTHER -> Raise(Exc("NotImplementedError", NoMsg))

\* self._dump(value), by the class of self.
Dump_(me, value) ==
    LET self == Obj(me) IN
    CASE self.cls = "IntegerField" -> IntegerField_dump(me, value)
      [] self.cls = "StringField" -> StringField_dump(me, value)
      [] OTHER -> Raise(Exc("NotImplementedError", NoMsg))

\* A slip in dump: the checks of load (null, validators) applied to dump too.
Field_dump_Checked(me, value) ==
    IF value = missing THEN Field_get_default(me)
    ELSE IF value = None
    THEN Done(IF Obj(me).allow_none THEN Ret(None) ELSE Field_fail(me, "null", <<>>), <<>>)
    ELSE LET dumped == Dump_(me, value)
             checked == Field_validate(me, value)
         IN Done(IF checked.out.k = "raise" THEN checked.out ELSE dumped,
                 <<Ev("_dump", 0, value)>> \o checked.trace)

\* Field.dump
Field_dump(me, value) ==
    IF value = missing THEN Field_get_default(me)
    ELSE IF value = None THEN Done(Ret(None), <<>>)
    ELSE Done(Dump_(me, value), <<Ev("_dump", 0, value)>>)

\* Field.load; `cache` tells whether the call stored _cached_root.
Field_load(me, value) ==
    LET self == Obj(me) IN
    IF value = missing
    THEN LET root == Field_root(me) IN
         IF root.out.k = "raise"
         THEN [out |-> root.out, trace |-> <<>>, cache |-> FALSE]
         ELSE IF PartialOf(root.root)
         THEN [out |-> Ret(missing), trace |-> <<>>, cache |-> root.cache]
         ELSE IF self.required
         THEN [out |-> Field_fail(me, "required", <<>>), trace |-> <<>>,
               cache |-> root.cache]
         ELSE LET d == Field_get_default(me) IN
              [out |-> d.out, trace |-> d.trace, cache |-> root.cache]
    ELSE IF value = None
    THEN [out |-> IF self.allow_none THEN Ret(None) ELSE Field_fail(me, "null", <<>>),
          trace |-> <<>>, cache |-> FALSE]
    ELSE LET loaded == Load_(me, value) IN
         IF loaded.k = "raise"
         THEN [out |-> loaded, trace |-> <<Ev("_load", 0, value)>>, cache |-> FALSE]
         ELSE LET checked == Field_validate(me, loaded.v) IN
              [out |-> IF checked.out.k = "raise" THEN checked.out ELSE loaded,
               trace |-> <<Ev("_load", 0, value)>> \o checked.trace, cache |-> FALSE]

\* A load that also unbinds the field it went through.
Cached_Unbind(self, ref, cache) == [self EXCEPT !.parent = NoRef]

\* The object after a load that stored the root.
Cached(self, ref, cache) ==
    IF cache THEN [self EXCEPT !.has_cached_root = TRUE, !.cached_root = TopLevel(ref)]
    ELSE self

(***************************************************************************)
(* Inputs the model draws from.                                            *)
(***************************************************************************)
\* raw values handed to load and dump
Values ==
    {missing, None, IntV(0), IntV(2), IntV(12),
     StrV(<<>>), StrV(<<" ">>), StrV(<<"a">>), StrV(<<" ", "7">>), StrV(<<"a", " ">>)}

\* validators lists a caller writes: the n-th validator has id n
ValidatorLists ==
    UNION {{[n \in 1..len |-> UserValidator(behs[n], n)] : behs \in [1..len -> UserBehaviours]}
           : len \in 0..MaxValidators}

\* the class-specific keyword arguments
ClassKws ==
    {<<"Field", DefaultKw>>}
    \cup {<<"UserField", [DefaultKw EXCEPT !.fail_key = key]>> : key \in {"not_found", "null"}}
    \cup {<<"IntegerField", [DefaultKw EXCEPT !.min_value = lo, !.max_value = hi]>>
          : lo \in {None, IntV(1)}, hi \in {None, IntV(3)}}
    \cup {<<"StringField", [DefaultKw EXCEPT !.allow_blank = blank, !.trim_whitespace = trim,
                                             !.min_length = bounds[1], !.max_length = bounds[2]]>>
          : blank \in BOOLEAN, trim \in BOOLEAN,
            bounds \in {<<None, None>>, <<IntV(1), IntV(1)>>}}

Defaults == {missing, None, IntV(1), CallableV(5)}

\* keys given to _fail directly
FailKeys == {"required", "null", "validator_failed", "invalid", "blank", "not_found"}

NoCall == [op |-> "none"]

(***************************************************************************)
(* Contract classes.  A class statement runs ContractMeta once; the        *)
(* program under study declares                                            *)
(*     class Base(Contract):                                               *)
(*         a = IntegerField()                                              *)
(*         b = StringField(load_from='bb', dump_to='B', default=None)      *)
(*     class Sub(Base):                                                    *)
(*         c = UserField(load_only=True)     # _load: self._fail('not_found') *)
(*         d = IntegerField(validators=[v], default=f)                     *)
(*         e = IntegerField(dump_only=True)                                *)
(*     class Hooked(Base):                 # overrides the hooks, see below *)
(* where v raises ValueError and f returns 5.  The five field objects are  *)
(* heap[1..5]; an ordered dict is a sequence of <<key, value>> pairs.      *)
(***************************************************************************)
Declarations ==
    <<[cls |-> "IntegerField", kw |-> DefaultKw, validators |-> <<>>],
      [cls |-> "StringField",
       kw |-> [DefaultKw EXCEPT !.load_from = "bb", !.dump_to = "B", !.default = None],
       validators |-> <<>>],
      [cls |-> "UserField",
       kw |-> [DefaultKw EXCEPT !.fail_key = "not_found", !.load_only = TRUE],
       validators |-> <<>>],
      [cls |-> "IntegerField", kw |-> [DefaultKw EXCEPT !.default = CallableV(5)],
       validators |-> <<UserValidator("other", 1)>>],
      [cls |-> "IntegerField", kw |-> [DefaultKw EXCEPT !.dump_only = TRUE],
       validators |-> <<>>]>>

\* The class statements: bases and the field attributes of the class body.
Classes ==
    [Contract |-> [bases |-> <<"Field">>, attrs |-> <<>>],
     Base |-> [bases |-> <<"Contract">>, attrs |-> << <<"a", 1>>, <<"b", 2>> >>],
     Sub |-> [bases |-> <<"Base">>, attrs |-> << <<"c", 3>>, <<"d", 4>>, <<"e", 5>> >>],
     Hooked |-> [bases |-> <<"Base">>, attrs |-> <<>>]]

Keys(pairs) == {pairs[n][1] : n \in 1..Len(pairs)}
\* dict(pairs): a key keeps its first position and takes its last value
dict(pairs) ==
    LET firsts == SelectSeq([n \in 1..Len(pairs) |-> n],
                            LAMBDA n : \A m \in 1..(n - 1) : pairs[m][1] # pairs[n][1])
        Last(key) == CHOOSE n \in 1..Len(pairs) :
                        /\ pairs[n][1] = key
                        /\ \A m \in (n + 1)..Len(pairs) : pairs[m][1] # key
    IN [j \in 1..Len(firsts) |-> <<pairs[firsts[j]][1], pairs[Last(pairs[firsts[j]][1])][2]>>]

\* A class attribute that is no field (a method, a constant).
NotAField == 0

\* The names of the contract classes of a registry, and the class of a name.
ClassNames(registry) == {registry[n].name : n \in 1..Len(registry)}
ClassOf(registry, name) ==
    registry[CHOOSE n \in 1..Len(registry) : registry[n].name = name]

\* The loop over the bases without `reversed`: the fields of a later base are
\* put before those of an earlier one.
RECURSIVE InheritFrom_Forward(_, _, _, _)
InheritFrom_Forward(registry, bases, n, fields) ==
    IF n = 0 THEN fields
    ELSE InheritFrom_Forward(registry, bases, n - 1,
            IF bases[Len(bases) - n + 1] \in ClassNames(registry)
            THEN ClassOf(registry, bases[Len(bases) - n + 1]).fields \o fields
            ELSE fields)

\* The loop of ContractMeta.get_declared_fields over reversed(bases): n bases
\* are still to be visited; a base has _declared_fields when it is a
\* contract class, that is, when it is in the registry.
RECURSIVE InheritFrom(_, _, _, _)
InheritFrom(registry, bases, n, fields) ==
    IF n = 0 THEN fields
    ELSE InheritFrom(registry, bases, n - 1,
                     IF bases[n] \in ClassNames(registry)
                     THEN ClassOf(registry, bases[n]).fields \o fields ELSE fields)

\* ContractMeta.get_declared_fields: attrs holds the attributes of the class
\* body as pairs <<name, value>>, in order.
get_declared_fields(registry, bases, attrs) ==
    dict(InheritFrom(registry, bases, Len(bases),
                     SelectSeq(attrs, LAMBDA pair : pair[2] # NotAField)))

\* ContractMeta.__new__: the registry with the new class.
ContractMeta__new__(registry, name, bases, attrs) ==
    Append(registry, [name |-> name, bases |-> bases,
                      fields |-> get_declared_fields(registry, bases, attrs)])

\* The class statements of Classes, executed in this order.
ClassOrder == <<"Contract", "Base", "Sub", "Hooked">>
RECURSIVE ClassesFrom(_, _)
ClassesFrom(n, registry) ==
    IF n > Len(ClassOrder) THEN registry
    ELSE ClassesFrom(n + 1, ContractMeta__new__(registry, ClassOrder[n],
                                                Classes[ClassOrder[n]].bases,
                                                Classes[ClassOrder[n]].attrs))
ModuleClasses == ClassesFrom(1, <<>>)

\* cls._declared_fields
declared_fields(cls) == ClassOf(classes, cls).fields

(***************************************************************************)
(* Calls on one field object.                                              *)
(***************************************************************************)
\* field.load(value)
FieldLoad ==
    \E fid \in DOMAIN heap, value \in Values :
        LET me == FieldRef(fid)
            r == Field_load(me, value)
        IN /\ call' = [op |-> "load", me |-> me, value |-> value,
                       out |-> r.out, trace |-> r.trace]
           /\ heap' = [heap EXCEPT ![fid] = Cached(@, me, r.cache)]
           /\ UNCHANGED <<lists, made, contracts, classes>>

\* field.dump(value)
FieldDump ==
    \E fid \in DOMAIN heap, value \in Values :
        LET me == FieldRef(fid)
            r == Field_dump(me, value)
        IN /\ call' = [op |-> "dump", me |-> me, value |-> value,
                       out |-> r.out, trace |-> r.trace]
           /\ UNCHANGED <<heap, lists, made, contracts, classes>>

\* field._fail(key)
FieldFail ==
    \E fid \in DOMAIN heap, key \in FailKeys :
        LET me == FieldRef(fid) IN
        /\ call' = [op |-> "_fail", me |-> me, key |-> key,
                    out |-> Field_fail(me, key, <<>>), trace |-> <<>>]
        /\ UNCHANGED <<heap, lists, made, contracts, classes>>

(***************************************************************************)
(* SpecField: one field object, constructed with any of the bounded        *)
(* keyword arguments, then loaded from, dumped and failed directly.        *)
(* Two families of constructions are drawn: every combination of           *)
(* required / default / allow_none with a validators list of at most one   *)
(* failing validator, and every validators list with the other keywords    *)
(* left at their defaults.                                                 *)
(***************************************************************************)
FieldConfigs ==
    {[cls |-> ck[1],
      kw |-> [ck[2] EXCEPT !.required = req, !.default = def, !.allow_none = nul],
      validators |-> vs]
     : ck \in ClassKws, req \in Tri, def \in Defaults, nul \in Tri,
       vs \in {<<>>, <<UserValidator("false", 1)>>}}
    \cup
    {[cls |-> ck[1], kw |-> ck[2], validators |-> vs]
     : ck \in ClassKws, vs \in ValidatorLists}

\* The constructor call of a configuration: the caller's list, when it is not
\* empty, is list 1 and is passed as validators=
Construct(cfg) ==
    IF cfg.validators = <<>>
    THEN New(cfg.cls, cfg.kw, <<>>)
    ELSE New(cfg.cls, [cfg.kw EXCEPT !.validators = 1], <<cfg.validators>>)

InitField ==
    \E cfg \in FieldConfigs :
        /\ heap = <<Construct(cfg).self>>
        /\ lists = Construct(cfg).lists
        /\ made = <<cfg>>
        /\ contracts = <<>>
        /\ classes = ModuleClasses
        /\ call = NoCall

NextField == FieldLoad \/ FieldDump \/ FieldFail

SpecField == InitField /\ [][NextField]_vars

\* The field objects of the class bodies, constructed in order.
RECURSIVE DeclareFrom(_, _, _)
DeclareFrom(n, objects, ls) ==
    IF n > Len(Declarations) THEN [heap |-> objects, lists |-> ls]
    ELSE LET cfg == Declarations[n]
             new == IF cfg.validators = <<>> THEN New(cfg.cls, cfg.kw, ls)
                    ELSE New(cfg.cls, [cfg.kw EXCEPT !.validators = Len(ls) + 1],
                             Append(ls, cfg.validators))
         IN DeclareFrom(n + 1, Append(objects, new.self), new.lists)

(***************************************************************************)
(* Contract construction.                                                  *)
(***************************************************************************)
\* Field.bind
Field_bind(self, field_name, parent) ==
    [self EXCEPT !.field_name = field_name,
                 !.parent = parent,
                 !.dump_to = IF Falsy(@) THEN field_name ELSE @,
                 !.load_from = IF Falsy(@) THEN field_name ELSE @]

\* The `only` argument: None, a tuple of names, or a value of another type.
NoOnly == [t |-> "NoneType", names |-> <<>>]
TupleOnly(names) == [t |-> "tuple", names |-> names]
StrOnly(name) == [t |-> "str", names |-> <<name>>]
\* `only or ()`
OnlyOrEmpty(only) ==
    IF only.t = "NoneType" \/ only.names = <<>> \/ (only.t = "str" /\ only.names = <<"">>)
    THEN TupleOnly(<<>>) ELSE only

Range(seq) == {seq[n] : n \in 1..Len(seq)}

\* The fields of `fields` (in order) that are selected and pass `keep`.
Partition(objects, fields, field_names, load) ==
    LET selected == SelectSeq(fields, LAMBDA pair :
            /\ pair[1] \in field_names
            /\ IF objects[pair[2]].load_only THEN load
               ELSE IF objects[pair[2]].dump_only THEN ~load
               ELSE TRUE)
    IN [n \in 1..Len(selected) |-> selected[n][2]]

\* The loop of Contract.__init__ binding every field of self.fields to self.
BindAll(objects, fields, parent) ==
    [fid \in DOMAIN objects |->
        IF \E n \in 1..Len(fields) : fields[n][2] = fid
        THEN Field_bind(objects[fid],
                        fields[CHOOSE n \in 1..Len(fields) : fields[n][2] = fid][1], parent)
        ELSE objects[fid]]

\* The keyword arguments Contract.__init__ hands on to Field.__init__:
\* `validators` is the caller's list (empty: not given) and `others` the
\* names of keywords Field.__init__ does not have, which it refuses.
NoKwargs == [validators |-> <<>>, others |-> {}]

\* Contract.__init__ of class cls, as the instance `cid`: the outcome, the new
\* instance, and the heap and lists after the call.
Contract__init__(cls, cid, many, only, partial, kwargs, objects, ls) ==
    LET base == IF kwargs.validators = <<>>
                THEN Field__init__("Contract", DefaultKw, ls)
                ELSE Field__init__("Contract",
                                   [DefaultKw EXCEPT !.validators = Len(ls) + 1],
                                   Append(ls, kwargs.validators))
        kept == OnlyOrEmpty(only)
        fields == declared_fields(cls)
        field_names == IF kept.names # <<>> THEN Range(kept.names) ELSE Keys(fields)
        bound == BindAll(objects, fields, ContractRef(cid))
    IN IF kwargs.others # {}
       THEN [out |-> Raise(Exc("TypeError",
                               Msg("__init__() got an unexpected keyword argument", <<>>))),
             heap |-> objects, lists |-> ls]
       ELSE IF kept.t # "tuple"
       THEN [out |-> Raise(Exc("AssertionError", Msg("only has to be a list or tuple", <<>>))),
             heap |-> objects, lists |-> ls]
       ELSE [out |-> Ret(None),
             self |-> [base.self EXCEPT !.cls = cls] @@
                      [many |-> many, only |-> kept.names, partial |-> partial,
                       fields |-> fields,
                       load_fields |-> Partition(bound, fields, field_names, TRUE),
                       dump_fields |-> Partition(bound, fields, field_names, FALSE)],
             heap |-> bound, lists |-> base.lists]


(***************************************************************************)
(* Contract passes.  The input of a pass is a dict, or another object      *)
(* (t is its type name, d its attributes).  A pass yields its outcome and  *)
(* `trace`, the hook and field calls it made, in order: PassEv("load", f,  *)
(* raw, out) is heap[f].load(raw) with its outcome.                        *)
(***************************************************************************)
EmptyDict == [k \in {} |-> None]
Dict(d) == [t |-> "dict", d |-> d]
Object(t, attrs) == [t |-> t, d |-> attrs]
\* d[key] = value
Put(d, key, value) == [k \in DOMAIN d \cup {key} |-> IF k = key THEN value ELSE d[k]]
PassEv(ev, n, arg, out) == [ev |-> ev, n |-> n, arg |-> arg, out |-> out]

\* The overridable hooks; Contract's own return their data unchanged, and the
\* class Hooked overrides them:
\*     def pre_load(self, data): return dict(data, a=2)
\*     def pre_dump(self, data):
\*         return dict(data, a=2) if isinstance(data, dict) else data
\*     def post_load(self, data, original_data): return dict(data, post=True)
\*     def post_dump(self, data, original_data): return dict(data, post=True)
Overrides(me) == contracts[me.id].cls = "Hooked"
pre_load(me, data) ==
    IF Overrides(me) THEN Dict(Put(data.d, "a", IntV(2))) ELSE data
pre_dump(me, data) ==
    IF Overrides(me) /\ data.t = "dict" THEN Dict(Put(data.d, "a", IntV(2))) ELSE data
post_load(me, data, original_data) ==
    IF Overrides(me) THEN Put(data, "post", True) ELSE data
post_dump(me, data, original_data) ==
    IF Overrides(me) THEN Put(data, "post", True) ELSE data

\* What a pass tells of its course besides its outcome: `given` is the data
\* the fields were read from, `result` the mapping built from the fields, and
\* `posted` the arguments of the post hook when it was called.
NotPosted == [called |-> FALSE, data |-> EmptyDict, original_data |-> Dict(EmptyDict)]
Posted(data, original_data) ==
    [called |-> TRUE, data |-> data, original_data |-> original_data]

\* Contract._get_value
Contract_get_value(data, field_name) ==
    IF field_name \in DOMAIN data.d THEN data.d[field_name] ELSE missing

\* A slip in the loop of _load_single: `except Exception` instead of
\* `except ValidationError`, so every exception of a field is collected.
RECURSIVE LoadFieldsFrom_CatchAll(_, _, _, _, _, _, _)
LoadFieldsFrom_CatchAll(me, data, n, result, errors, trace, cached) ==
    LET fields == contracts[me.id].load_fields IN
    IF n > Len(fields)
    THEN [raised |-> NoExc, result |-> result, errors |-> errors, trace |-> trace,
          cached |-> cached]
    ELSE LET field == heap[fields[n]]
             raw == Contract_get_value(data, field.load_from)
             r == Field_load(FieldRef(fields[n]), raw)
             t == Append(trace, PassEv("load", fields[n], raw, r.out))
             c == IF r.cache THEN cached \cup {fields[n]} ELSE cached
         IN IF r.out.k = "return"
            THEN LoadFieldsFrom_CatchAll(me, data, n + 1,
                                IF r.out.v # missing
                                THEN Put(result, field.field_name, r.out.v) ELSE result,
                                errors, t, c)
            ELSE LoadFieldsFrom_CatchAll(me, data, n + 1, result,
                                Put(errors, field.field_name, r.out.e), t, c)

\* A slip in the loop of _load_single: the loaded value is stored under the
\* key it was read from (load_from) instead of the name of the field.
RECURSIVE LoadFieldsFrom_ByLoadFrom(_, _, _, _, _, _, _)
LoadFieldsFrom_ByLoadFrom(me, data, n, result, errors, trace, cached) ==
    LET fields == contracts[me.id].load_fields IN
    IF n > Len(fields)
    THEN [raised |-> NoExc, result |-> result, errors |-> errors, trace |-> trace,
          cached |-> cached]
    ELSE LET field == heap[fields[n]]
             raw == Contract_get_value(data, field.load_from)
         IN CHOOSE loop \in {
                LET t == Append(trace, PassEv("load", fields[n], raw, r.out))
                IN IF r.out.k = "return"
                   THEN LoadFieldsFrom_ByLoadFrom(me, data, n + 1,
                                       IF r.out.v # missing
                                       THEN Put(result, field.load_from, r.out.v)
                                       ELSE result,
                                       errors, t, cached)
                   ELSE IF r.out.e.type = "ValidationError"
                   THEN LoadFieldsFrom_ByLoadFrom(me, data, n + 1, result,
                                       Put(errors, field.field_name, r.out.e), t, cached)
                   ELSE [raised |-> r.out.e, result |-> result, errors |-> errors,
                         trace |-> t, cached |-> cached]
                : r \in {Field_load(FieldRef(fields[n]), raw)}} : TRUE

\* The loop of Contract._load_single from the n-th load field on; `raised` is
\* the exception that left the loop, if one did.  (r is drawn from a
\* one-element set: the call of load is evaluated once per iteration.)
RECURSIVE LoadFieldsFrom(_, _, _, _, _, _, _)
LoadFieldsFrom(me, data, n, result, errors, trace, cached) ==
    LET fields == contracts[me.id].load_fields IN
    IF n > Len(fields)
    THEN [raised |-> NoExc, result |-> result, errors |-> errors, trace |-> trace,
          cached |-> cached]
    ELSE LET field == heap[fields[n]]
             raw == Contract_get_value(data, field.load_from)
         IN CHOOSE loop \in {
                LET t == Append(trace, PassEv("load", fields[n], raw, r.out))
                    c == IF r.cache THEN cached \cup {fields[n]} ELSE cached
                IN IF r.out.k = "return"
                   THEN LoadFieldsFrom(me, data, n + 1,
                                       IF r.out.v # missing
                                       THEN Put(result, field.field_name, r.out.v)
                                       ELSE result,
                                       errors, t, c)
                   ELSE IF r.out.e.type = "ValidationError"
                   THEN LoadFieldsFrom(me, data, n + 1, result,
                                       Put(errors, field.field_name, r.out.e), t, c)
                   ELSE [raised |-> r.out.e, result |-> result, errors |-> errors,
                         trace |-> t, cached |-> c]
                : r \in {Field_load(FieldRef(fields[n]), raw)}} : TRUE

\* The end of Contract._load_single, after the loop: `pre` is the data the
\* loop read and `loop` what the loop left.
AfterLoadFields(me, pre, loop) ==
    IF loop.raised.type # "none"
    THEN [out |-> Raise(loop.raised), trace |-> loop.trace, cached |-> loop.cached,
          given |-> pre, result |-> loop.result, posted |-> NotPosted]
    ELSE IF DOMAIN loop.errors # {}
    THEN [out |-> Raise(ValidationError("dict", loop.errors)), trace |-> loop.trace,
          cached |-> loop.cached,
          given |-> pre, result |-> loop.result, posted |-> NotPosted]
    ELSE [out |-> Ret(post_load(me, loop.result, pre)),
          trace |-> Append(loop.trace, PassEv("post_load", 0, None, Ret(None))),
          cached |-> loop.cached,
          given |-> pre, result |-> loop.result, posted |-> Posted(loop.result, pre)]

\* A slip in _load_single: the test that the input is a mapping is left out.
Contract_load_single_Unchecked(me, data) ==
    AfterLoadFields(me, pre_load(me, data),
                    LoadFieldsFrom(me, pre_load(me, data), 1, EmptyDict, EmptyDict,
                                   <<PassEv("pre_load", 0, None, Ret(None))>>, {}))

\* Contract._load_single
Contract_load_single(me, data) ==
    IF data.t # "dict"
    THEN [out |-> Field_fail(me, "invalid", <<StrV(<<data.t>>)>>), trace |-> <<>>,
          cached |-> {}, given |-> data, result |-> EmptyDict, posted |-> NotPosted]
    ELSE AfterLoadFields(me, pre_load(me, data),
                         LoadFieldsFrom(me, pre_load(me, data), 1, EmptyDict, EmptyDict,
                                        <<PassEv("pre_load", 0, None, Ret(None))>>, {}))

\* A slip in the loop of _dump_single: an exception of a field is swallowed
\* and the loop goes on.
RECURSIVE DumpFieldsFrom_Swallow(_, _, _, _, _)
DumpFieldsFrom_Swallow(me, data, n, result, trace) ==
    LET fields == contracts[me.id].dump_fields IN
    IF n > Len(fields) THEN [raised |-> NoExc, result |-> result, trace |-> trace]
    ELSE LET field == heap[fields[n]]
             raw == Contract_get_value(data, field.field_name)
             r == Field_dump(FieldRef(fields[n]), raw)
             t == Append(trace, PassEv("dump", fields[n], raw, r.out))
         IN DumpFieldsFrom_Swallow(me, data, n + 1,
                               IF r.out.k = "return" /\ r.out.v # missing
                               THEN Put(result, field.dump_to, r.out.v) ELSE result, t)

\* The loop of Contract._dump_single from the n-th dump field on.
RECURSIVE DumpFieldsFrom(_, _, _, _, _)
DumpFieldsFrom(me, data, n, result, trace) ==
    LET fields == contracts[me.id].dump_fields IN
    IF n > Len(fields) THEN [raised |-> NoExc, result |-> result, trace |-> trace]
    ELSE LET field == heap[fields[n]]
             raw == Contract_get_value(data, field.field_name)
             r == Field_dump(FieldRef(fields[n]), raw)
             t == Append(trace, PassEv("dump", fields[n], raw, r.out))
         IN IF r.out.k = "raise"
            THEN [raised |-> r.out.e, result |-> result, trace |-> t]
            ELSE DumpFieldsFrom(me, data, n + 1,
                                IF r.out.v # missing
                                THEN Put(result, field.dump_to, r.out.v) ELSE result, t)

\* The end of Contract._dump_single, after the loop.
AfterDumpFields(me, pre, loop) ==
    IF loop.raised.type # "none"
    THEN [out |-> Raise(loop.raised), trace |-> loop.trace,
          given |-> pre, result |-> loop.result, posted |-> NotPosted]
    ELSE [out |-> Ret(post_dump(me, loop.result, pre)),
          trace |-> Append(loop.trace, PassEv("post_dump", 0, None, Ret(None))),
          given |-> pre, result |-> loop.result, posted |-> Posted(loop.result, pre)]

\* Contract._dump_single
Contract_dump_single(me, data) ==
    AfterDumpFields(me, pre_dump(me, data),
                    DumpFieldsFrom(me, pre_dump(me, data), 1, EmptyDict,
                                   <<PassEv("pre_dump", 0, None, Ret(None))>>))


(***************************************************************************)
(* Batches (many=True).  A list input is [t |-> "list", items |-> the      *)
(* items]; the trace of a batch holds the batch hooks called and           *)
(* PassEv("item", n, item, out) for the single-item operation on item n.   *)
(***************************************************************************)
ListOf(items) == [t |-> "list", d |-> EmptyDict, items |-> items]

\* The batch hooks of Contract return their data unchanged.
pre_load_many(me, data) == data
pre_dump_many(me, data) == data
post_load_many(me, data, original_data) == data
post_dump_many(me, data, original_data) == data

\* A loop that leaves out an item whose load raises and goes on.
RECURSIVE LoadItemsFrom_SkipFailed(_, _, _, _, _)
LoadItemsFrom_SkipFailed(me, data, n, items, trace) ==
    IF n > Len(data.items) THEN [raised |-> NoExc, items |-> items, trace |-> trace]
    ELSE CHOOSE loop \in {
             LoadItemsFrom_SkipFailed(me, data, n + 1,
                 IF r.out.k = "raise" THEN items ELSE Append(items, r.out.v),
                 Append(trace, PassEv("item", n, data.items[n], r.out)))
             : r \in {Contract_load_single(me, data.items[n])}} : TRUE

\* The loop of Contract._load_many from the n-th item on.
RECURSIVE LoadItemsFrom(_, _, _, _, _)
LoadItemsFrom(me, data, n, items, trace) ==
    IF n > Len(data.items) THEN [raised |-> NoExc, items |-> items, trace |-> trace]
    ELSE CHOOSE loop \in {
             LET t == Append(trace, PassEv("item", n, data.items[n], r.out))
             IN IF r.out.k = "raise"
                THEN [raised |-> r.out.e, items |-> items, trace |-> t]
                ELSE LoadItemsFrom(me, data, n + 1, Append(items, r.out.v), t)
             : r \in {Contract_load_single(me, data.items[n])}} : TRUE

\* Contract._load_many
AfterLoadItems(me, pre, loop) ==
    IF loop.raised.type # "none"
    THEN [out |-> Raise(loop.raised), trace |-> loop.trace]
    ELSE [out |-> Ret(post_load_many(me, loop.items, pre)),
          trace |-> Append(loop.trace, PassEv("post_load_many", 0, None, Ret(None)))]

Contract_load_many(me, data) ==
    AfterLoadItems(me, pre_load_many(me, data),
                   LoadItemsFrom(me, pre_load_many(me, data), 1, <<>>,
                                 <<PassEv("pre_load_many", 0, None, Ret(None))>>))

\* Contract._load
Contract_load(me, data) ==
    IF contracts[me.id].many THEN Contract_load_many(me, data)
    ELSE Contract_load_single(me, data)

\* The loop of Contract._dump_many from the n-th item on.
RECURSIVE DumpItemsFrom(_, _, _, _, _)
DumpItemsFrom(me, data, n, items, trace) ==
    IF n > Len(data.items) THEN [raised |-> NoExc, items |-> items, trace |-> trace]
    ELSE CHOOSE loop \in {
             LET t == Append(trace, PassEv("item", n, data.items[n], r.out))
             IN IF r.out.k = "raise"
                THEN [raised |-> r.out.e, items |-> items, trace |-> t]
                ELSE DumpItemsFrom(me, data, n + 1, Append(items, r.out.v), t)
             : r \in {Contract_dump_single(me, data.items[n])}} : TRUE

\* Contract._dump_many: it calls no hook
AfterDumpItems(loop) ==
    IF loop.raised.type # "none"
    THEN [out |-> Raise(loop.raised), trace |-> loop.trace]
    ELSE [out |-> Ret(loop.items), trace |-> loop.trace]

Contract_dump_many(me, data) == AfterDumpItems(DumpItemsFrom(me, data, 1, <<>>, <<>>))

\* Contract._dump
Contract_dump(me, data) ==
    IF contracts[me.id].many THEN Contract_dump_many(me, data)
    ELSE Contract_dump_single(me, data)

(***************************************************************************)
(* Contract._validate.  Contract.post_validate does nothing; the class     *)
(* Hooked overrides it:                                                    *)
(*     def post_validate(self, data):                                      *)
(*         if data == 1: raise ValidationError('post error')               *)
(*         if data == 2: raise ValidationError({'code': 'post error'})     *)
(***************************************************************************)
post_validate(me, data) ==
    IF Overrides(me) /\ data = IntV(1)
    THEN Raise(ValidationError("str", Msg("post error", <<>>)))
    ELSE IF Overrides(me) /\ data = IntV(2)
    THEN Raise(ValidationError("dict", [k \in {"code"} |->
                   ValidationError("str", Msg("post error", <<>>))]))
    ELSE Ret(None)

\* The loop of Contract._validate over the errors caught, from the n-th on:
\* d.update(error.message) for a mapping, d['_contract'] = error otherwise.
RECURSIVE MergeFrom(_, _, _)
MergeFrom(errors, n, d) ==
    IF n > Len(errors) THEN d
    ELSE MergeFrom(errors, n + 1,
                   IF IsMappingError(errors[n])
                   THEN [k \in DOMAIN d \cup DOMAIN errors[n].message |->
                            IF k \in DOMAIN errors[n].message THEN errors[n].message[k]
                            ELSE d[k]]
                   ELSE Put(d, "_contract", errors[n]))

\* The errors Contract._validate caught: `first` is the outcome of
\* Field._validate and `second` that of post_validate.
Caught(first, second) ==
    (IF IsValidationError(first) THEN <<first.e>> ELSE <<>>)
    \o (IF IsValidationError(second) THEN <<second.e>> ELSE <<>>)

\* Contract._validate, given the outcomes of its two calls; an exception of
\* the validators that is no validation error leaves it before post_validate.
AfterValidate(first, second) ==
    IF first.out.k = "raise" /\ first.out.e.type # "ValidationError"
    THEN [out |-> first.out, trace |-> first.trace, first |-> first.out,
          second |-> Ret(None)]
    ELSE [out |-> IF DOMAIN MergeFrom(Caught(first.out, second), 1, EmptyDict) # {}
                  THEN Raise(ValidationError("dict",
                                 MergeFrom(Caught(first.out, second), 1, EmptyDict)))
                  ELSE Ret(None),
          trace |-> Append(first.trace, Ev("post_validate", 0, None)),
          first |-> first.out, second |-> second]

\* Contract._validate
Contract_validate(me, value) ==
    AfterValidate(Field_validate(me, value), post_validate(me, value))

(***************************************************************************)
(* Inputs of the passes.                                                   *)
(***************************************************************************)
\* What a caller passes for one key of the input: nothing, or the key with a
\* value.
SlotA == {{}, {<<"a", IntV(2)>>}, {<<"a", StrV(<<"a">>)>>}}
SlotB == {{}, {<<"bb", None>>}, {<<"bb", StrV(<<"a">>)>>}, {<<"b", StrV(<<"a">>)>>}}
SlotC == {{}, {<<"c", None>>}, {<<"c", IntV(2)>>}}
SlotD == {{}, {<<"d", IntV(2)>>}, {<<"d", StrV(<<"a">>)>>}}
DictOf(pairs) ==
    Dict([k \in {p[1] : p \in pairs} |-> (CHOOSE p \in pairs : p[1] = k)[2]])

\* The inputs given to a pass of an instance of class cls: dicts over the keys
\* of the class, an object with attributes, and a list.
Inputs(cls) ==
    {DictOf(sa \cup sb \cup sc \cup sd) :
        sa \in SlotA, sb \in SlotB,
        sc \in IF cls = "Sub" THEN SlotC ELSE {{}},
        sd \in IF cls = "Sub" THEN SlotD ELSE {{}}}
    \cup {Object("object", [a |-> IntV(2)]), Object("list", EmptyDict)}

\* A few of them, for the passes made between constructions.
Probes(cls) ==
    {DictOf({}),
     DictOf({<<"a", IntV(2)>>, <<"bb", StrV(<<"a">>)>>}),
     DictOf({<<"a", StrV(<<"a">>)>>, <<"b", StrV(<<"a">>)>>, <<"bb", None>>})}

\* The lists given to a contract constructed with many=True.
MaxItems == 2
Batches(cls) ==
    UNION {{ListOf(items) : items \in [1..len -> Probes(cls)]} : len \in 0..MaxItems}

Onlys == {NoOnly, TupleOnly(<<"b">>), StrOnly("b"), TupleOnly(<<"e", "c", "a">>)}

\* validators lists given to a contract
ContractValidators ==
    {<<>>} \cup {<<UserValidator(beh, 1)>> : beh \in {"false", "flat", "mapping"}}

\* The constructor calls made: Base and Sub in every mode, Base and Sub with
\* an `only`, Base with the keyword `exclude`, Hooked with validators.
Constructions ==
    {[cls |-> cls, many |-> many, only |-> NoOnly, partial |-> partial, kwargs |-> NoKwargs]
     : cls \in {"Base", "Sub"}, many \in BOOLEAN, partial \in BOOLEAN}
    \cup
    {[cls |-> "Base", many |-> FALSE, only |-> only, partial |-> FALSE, kwargs |-> NoKwargs]
     : only \in {TupleOnly(<<"b">>), StrOnly("b")}}
    \cup
    {[cls |-> "Sub", many |-> FALSE, only |-> TupleOnly(<<"e", "c", "a">>),
      partial |-> FALSE, kwargs |-> NoKwargs],
     [cls |-> "Base", many |-> FALSE, only |-> NoOnly, partial |-> FALSE,
      kwargs |-> [NoKwargs EXCEPT !.others = {"exclude"}]]}
    \cup
    {[cls |-> "Hooked", many |-> FALSE, only |-> NoOnly, partial |-> FALSE,
      kwargs |-> [NoKwargs EXCEPT !.validators = vs]]
     : vs \in ContractValidators}

(***************************************************************************)
(* Calls on contracts.                                                     *)
(***************************************************************************)
\* cls(many=many, only=only, partial=partial, **kwargs)
NewContract ==
    \E c \in Constructions :
        LET cid == Len(contracts) + 1
            r == Contract__init__(c.cls, cid, c.many, c.only, c.partial, c.kwargs,
                                  heap, lists)
        IN /\ Len(contracts) < MaxContracts
           /\ call' = [op |-> "__init__", cls |-> c.cls, many |-> c.many, only |-> c.only,
                       partial |-> c.partial, kwargs |-> c.kwargs, out |-> r.out]
           /\ heap' = r.heap
           /\ lists' = r.lists
           /\ contracts' = IF r.out.k = "return" THEN Append(contracts, r.self)
                           ELSE contracts
           /\ UNCHANGED <<made, classes>>

\* contract._load_single(data), for every input of the contract's class, or
\* for the probes only
LoadSingleFrom(every) ==
    \E cid \in DOMAIN contracts :
        \E data \in IF every THEN Inputs(contracts[cid].cls)
                    ELSE Probes(contracts[cid].cls) :
            \E r \in {Contract_load_single(ContractRef(cid), data)} :
               /\ call' = [op |-> "_load_single", me |-> ContractRef(cid), data |-> data,
                           out |-> r.out, trace |-> r.trace, given |-> r.given,
                           result |-> r.result, posted |-> r.posted]
               /\ heap' = [fid \in DOMAIN heap |->
                              Cached(heap[fid], FieldRef(fid), fid \in r.cached)]
               /\ UNCHANGED <<lists, made, contracts, classes>>

\* contract._dump_single(data), for every input of the contract's class, or
\* for the probes only
DumpSingleFrom(every) ==
    \E cid \in DOMAIN contracts :
        \E data \in IF every THEN Inputs(contracts[cid].cls)
                    ELSE Probes(contracts[cid].cls) :
            \E r \in {Contract_dump_single(ContractRef(cid), data)} :
               /\ call' = [op |-> "_dump_single", me |-> ContractRef(cid), data |-> data,
                           out |-> r.out, trace |-> r.trace, given |-> r.given,
                           result |-> r.result, posted |-> r.posted]
               /\ UNCHANGED <<heap, lists, made, contracts, classes>>

\* contract._load(data): a batch for a contract with many=True, one item else
ContractLoad ==
    \E cid \in DOMAIN contracts :
        \E data \in IF contracts[cid].many THEN Batches(contracts[cid].cls)
                    ELSE Probes(contracts[cid].cls) :
            \E r \in {Contract_load(ContractRef(cid), data)} :
               /\ call' = [op |-> "_load", me |-> ContractRef(cid), data |-> data,
                           out |-> r.out, trace |-> r.trace]
               /\ UNCHANGED <<heap, lists, made, contracts, classes>>

\* contract._dump(data): a batch for a contract with many=True, one item else
ContractDump ==
    \E cid \in DOMAIN contracts :
        \E data \in IF contracts[cid].many THEN Batches(contracts[cid].cls)
                    ELSE Probes(contracts[cid].cls) :
            \E r \in {Contract_dump(ContractRef(cid), data)} :
               /\ call' = [op |-> "_dump", me |-> ContractRef(cid), data |-> data,
                           out |-> r.out, trace |-> r.trace]
               /\ UNCHANGED <<heap, lists, made, contracts, classes>>

\* contract._validate(value)
ValidateValues == {IntV(0), IntV(1), IntV(2)}
ContractValidate ==
    \E cid \in DOMAIN contracts, value \in ValidateValues :
        \E r \in {Contract_validate(ContractRef(cid), value)} :
           /\ call' = [op |-> "_validate", me |-> ContractRef(cid), value |-> value,
                       out |-> r.out, trace |-> r.trace, first |-> r.first,
                       second |-> r.second]
           /\ UNCHANGED <<heap, lists, made, contracts, classes>>

LoadSingle == LoadSingleFrom(TRUE)
DumpSingle == DumpSingleFrom(TRUE)
LoadProbe == LoadSingleFrom(FALSE)
DumpProbe == DumpSingleFrom(FALSE)

(***************************************************************************)
(* Spec: the classes Base and Sub are declared; contract instances are     *)
(* constructed from them, and passes are made on the instances.            *)
(***************************************************************************)
Init ==
    /\ heap = DeclareFrom(1, <<>>, <<>>).heap
    /\ lists = DeclareFrom(1, <<>>, <<>>).lists
    /\ made = Declarations
    /\ contracts = <<>>
    /\ classes = ModuleClasses
    /\ call = NoCall

Next == NewContract \/ LoadProbe \/ DumpProbe

Spec == Init /\ [][Next]_vars

(***************************************************************************)
(* SpecPass: one contract instance has been constructed by one of the      *)
(* Constructions; it is loaded from and dumped with every input of Inputs, *)
(* and _fail is called on its fields.                                      *)
(***************************************************************************)
InitPass ==
    /\ classes = ModuleClasses
    /\ \E c \in Constructions :
        \E r \in {Contract__init__(c.cls, 1, c.many, c.only, c.partial, c.kwargs,
                                   DeclareFrom(1, <<>>, <<>>).heap,
                                   DeclareFrom(1, <<>>, <<>>).lists)} :
            /\ r.out.k = "return"
            /\ heap = r.heap
            /\ lists = r.lists
            /\ made = Declarations
            /\ contracts = <<r.self>>
            /\ call = NoCall

NextPass ==
    \/ LoadSingle \/ DumpSingle \/ FieldFail
    \/ ContractLoad \/ ContractDump \/ ContractValidate

SpecPass == InitPass /\ [][NextPass]_vars

(***************************************************************************)
(* SpecMeta: only the library is imported (the class Contract exists);     *)
(* class statements define contract classes K1, K2, ... whose bases are    *)
(* classes defined before, or the plain class Mixin, and whose bodies      *)
(* define a method m and assign IntegerField() to a, b.                    *)
(***************************************************************************)
MaxClasses == 3
UserClassNames == <<"K1", "K2", "K3", "K4", "K5">>
AttrNames == {"a", "b"}

\* The class bodies: the method m, then some of the field names, each
\* assigned once, in any order.
Bodies ==
    {<<"m">> \o names : names \in
        {names \in UNION {[1..n -> AttrNames] : n \in 0..Cardinality(AttrNames)} :
            \A i, j \in 1..Len(names) : i # j => names[i] # names[j]}}

\* The strict ancestors of a class among the contract classes.
RECURSIVE Ancestors(_, _)
Ancestors(registry, name) ==
    IF name \notin ClassNames(registry) THEN {}
    ELSE UNION {{b} \cup Ancestors(registry, b) :
                   b \in Range(ClassOf(registry, name).bases)}

\* The base lists of a class statement: one or two different classes, the
\* first a contract class, the second a contract class or Mixin, in an order
\* Python can linearise (a class is not listed before one of its subclasses;
\* type.__new__ raises TypeError for the other orders and the class is not
\* defined).
BaseLists(registry) ==
    {bases \in UNION {[1..n -> ClassNames(registry) \cup {"Mixin"}] : n \in 1..2} :
        /\ bases[1] \in ClassNames(registry)
        /\ \A i, j \in 1..Len(bases) :
              i < j => /\ bases[i] # bases[j]
                       /\ bases[i] \notin Ancestors(registry, bases[j])}

\* The body of a class statement, executed from its n-th assignment on:
\* a, b = IntegerField() construct a field object each, m is a method.
RECURSIVE ExecuteFrom(_, _, _, _, _)
ExecuteFrom(body, n, objects, ls, attrs) ==
    IF n > Len(body) THEN [heap |-> objects, lists |-> ls, attrs |-> attrs]
    ELSE IF body[n] = "m"
    THEN ExecuteFrom(body, n + 1, objects, ls, Append(attrs, <<"m", NotAField>>))
    ELSE ExecuteFrom(body, n + 1,
                     Append(objects, New("IntegerField", DefaultKw, ls).self),
                     New("IntegerField", DefaultKw, ls).lists,
                     Append(attrs, <<body[n], Len(objects) + 1>>))

\* class Kn(*bases): body
ClassStatement ==
    /\ Len(classes) <= MaxClasses
    /\ \E bases \in BaseLists(classes), body \in Bodies :
        \E r \in {ExecuteFrom(body, 1, heap, lists, <<>>)} :
           /\ heap' = r.heap
           /\ lists' = r.lists
           /\ made' = made \o [n \in 1..(Len(r.heap) - Len(heap)) |->
                                  [cls |-> "IntegerField", kw |-> DefaultKw,
                                   validators |-> <<>>]]
           /\ classes' = ContractMeta__new__(classes, UserClassNames[Len(classes)],
                                             bases, r.attrs)
           /\ call' = [op |-> "class", name |-> UserClassNames[Len(classes)],
                       bases |-> bases, attrs |-> r.attrs]
           /\ UNCHANGED contracts

InitMeta ==
    /\ heap = <<>>
    /\ lists = <<>>
    /\ made = <<>>
    /\ contracts = <<>>
    /\ classes = ContractMeta__new__(<<>>, "Contract", <<"Field">>, <<>>)
    /\ call = NoCall

NextMeta == ClassStatement

SpecMeta == InitMeta /\ [][NextMeta]_vars

(***************************************************************************)
(* SpecBind: one Field object, constructed with or without dump_to and     *)
(* load_from, and one instance of Contract; bind is called on the field    *)
(* with names and parents of every kind, any number of times.              *)
(***************************************************************************)
\* A parent that is no contract: '', 1, a class that is no Contract.
OtherRef == [o |-> "other", id |-> 0]
BindNames == {NoName, "", "x", "y"}
BindParents == {NoRef, OtherRef, ContractRef(1)}
BindConfigs ==
    {[cls |-> "Field", kw |-> [DefaultKw EXCEPT !.dump_to = dump_to, !.load_from = load_from],
      validators |-> <<>>]
     : dump_to \in {NoName, "D"}, load_from \in {NoName, "L"}}

\* field.bind(field_name, parent)
FieldBind ==
    \E fid \in DOMAIN heap, field_name \in BindNames, parent \in BindParents :
        /\ heap' = [heap EXCEPT ![fid] = Field_bind(heap[fid], field_name, parent)]
        /\ call' = [op |-> "bind", me |-> FieldRef(fid), field_name |-> field_name,
                    parent |-> parent, before |-> heap[fid], out |-> Ret(None)]
        /\ UNCHANGED <<lists, made, contracts, classes>>

InitBind ==
    /\ classes = ModuleClasses
    /\ \E cfg \in BindConfigs :
        \E r \in {Contract__init__("Contract", 1, FALSE, NoOnly, FALSE, NoKwargs,
                                   <<Construct(cfg).self>>, Construct(cfg).lists)} :
            /\ heap = r.heap
            /\ lists = r.lists
            /\ made = <<cfg>>
            /\ contracts = <<r.self>>
            /\ call = NoCall

NextBind == FieldBind

SpecBind == InitBind /\ [][NextBind]_vars

(***************************************************************************)
(* SpecShare: a caller writes one validators list (list 1) and constructs  *)
(* up to MaxFields fields, with or without bounds, passing that list or no *)
(* list; values are loaded through the fields constructed so far.          *)
(***************************************************************************)
MaxFields == 2
CallerLists == {<<>>, <<UserValidator("true", 1)>>}
ShareKws ==
    {<<"IntegerField", [DefaultKw EXCEPT !.min_value = lo, !.max_value = hi]>>
     : lo \in {None, IntV(1)}, hi \in {None, IntV(3)}}
    \cup {<<"StringField", [DefaultKw EXCEPT !.min_length = lo]>> : lo \in {None, IntV(1)}}

\* cls(validators=given, **kw), for given the caller's list or None
NewField ==
    /\ Len(heap) < MaxFields
    /\ \E ck \in ShareKws, given \in {NoList, 1} :
        \E r \in {New(ck[1], [ck[2] EXCEPT !.validators = given], lists)} :
           /\ heap' = Append(heap, r.self)
           /\ lists' = r.lists
           /\ made' = Append(made, [cls |-> ck[1],
                                    kw |-> [ck[2] EXCEPT !.validators = given],
                                    validators |-> IF given = NoList THEN <<>>
                                                   ELSE lists[given]])
           /\ call' = [op |-> "__init__", me |-> FieldRef(Len(heap) + 1),
                       out |-> Ret(None)]
           /\ UNCHANGED <<contracts, classes>>

InitShare ==
    /\ heap = <<>>
    /\ lists \in {<<caller>> : caller \in CallerLists}
    /\ made = <<>>
    /\ contracts = <<>>
    /\ classes = ModuleClasses
    /\ call = NoCall

NextShare == NewField \/ FieldLoad

SpecShare == InitShare /\ [][NextShare]_vars

(***************************************************************************)
(* Properties of one field (checked under SpecField).                      *)
(***************************************************************************)

\* C3: load(missing) on a field whose contract is not in partial mode fails
\* with the `required` validation error when the field is required
\* (required=True, or required unset and no default), and otherwise returns
\* get_default(): the producer's result, the literal default, or missing;
\* neither _load nor a validator is run.  (Stated as claimed: the code does
\* not satisfy it.)
C3_LoadMissing ==
    (call.op = "load" /\ call.value = missing /\ ~PartialOf(TopLevel(call.me))) =>
        LET kw == made[call.me.id].kw
            required == IF kw.required = "None" THEN kw.default = missing
                        ELSE kw.required = "True"
            default == IF callable(kw.default) THEN IntV(kw.default.i) ELSE kw.default
        IN /\ \A n \in 1..Len(call.trace) : call.trace[n].ev \notin {"_load", "validator"}
           /\ required =>
                /\ IsValidationError(call.out)
                /\ call.out.e.shape = "str"
                /\ call.out.e.message.tpl = "This field is required."
           /\ ~required =>
                /\ call.out.k = "return"
                /\ call.out.v = default

\* C5: load(None) returns None if and only if allow_none holds, and fails with
\* the `null` validation error otherwise, where allow_none is the explicit
\* argument when given and else whether the default is None; neither _load nor
\* a validator is run.
C5_LoadNone ==
    (call.op = "load" /\ call.value = None) =>
        LET kw == made[call.me.id].kw
            allow == IF kw.allow_none = "None" THEN kw.default = None
                     ELSE kw.allow_none = "True"
        IN /\ call.trace = <<>>
           /\ allow => (call.out.k = "return" /\ call.out.v = None)
           /\ ~allow =>
                /\ IsValidationError(call.out)
                /\ call.out.e.shape = "str"
                /\ call.out.e.message.tpl = "This field may not be null."

\* C5 witness: a field with allow_none unset, default None and a validator
\* has loaded None and returned it.
C5_Witness ==
    /\ call.op = "load" /\ call.value = None
    /\ made[call.me.id].kw.allow_none = "None"
    /\ made[call.me.id].kw.default = None
    /\ ValidatorsOf(Obj(call.me)) # <<>>
    /\ call.out.k = "return" /\ call.out.v = None

\* C6: on load of a value that is neither missing nor None and that _load
\* converts, when every validator returns or raises a flat validation error:
\* all validators run, in list order, on the converted value; a validator
\* returning False fails with `validator_failed`, one returning None or True
\* succeeds; with k >= 1 failures load raises one ValidationError holding
\* exactly those k errors in validator order, with none it returns the
\* converted value.
C6_ValidatorsCollected ==
    (call.op = "load" /\ call.value \notin {missing, None}) =>
        LET me == call.me
            conv == Load_(me, call.value)
            vs == ValidatorsOf(Obj(me))
            res(n) == CallValidator(vs[n], conv.v)
            Flat(n) == \/ res(n).k = "return"
                       \/ (res(n).e.type = "ValidationError" /\ res(n).e.shape # "dict")
            Fails(n) == res(n).k = "raise" \/ res(n).v = False
            failing == {n \in 1..Len(vs) : Fails(n)}
            Nth(j) == CHOOSE n \in failing : Cardinality({m \in failing : m < n}) = j - 1
            ErrorOf(n) == IF res(n).k = "raise" THEN res(n).e
                          ELSE ValidationError("str", Msg("Invalid value.", <<>>))
        IN (conv.k = "return" /\ \A n \in 1..Len(vs) : Flat(n)) =>
              /\ Len(call.trace) = 1 + Len(vs)
              /\ call.trace[1] = Ev("_load", 0, call.value)
              /\ \A n \in 1..Len(vs) : call.trace[n + 1] = Ev("validator", n, conv.v)
              /\ failing = {} => (call.out.k = "return" /\ call.out.v = conv.v)
              /\ failing # {} =>
                   /\ IsValidationError(call.out)
                   /\ call.out.e.shape = "list"
                   /\ Len(call.out.e.message) = Cardinality(failing)
                   /\ \A j \in 1..Cardinality(failing) :
                          call.out.e.message[j] = ErrorOf(Nth(j))

\* C6 witness: a load whose first validator returned False and whose second
\* raised a flat error has raised one error holding the two.
C6_Witness ==
    /\ call.op = "load" /\ call.value \notin {missing, None}
    /\ Len(ValidatorsOf(Obj(call.me))) >= 2
    /\ ValidatorsOf(Obj(call.me))[1].beh = "false"
    /\ ValidatorsOf(Obj(call.me))[2].beh = "flat"
    /\ IsValidationError(call.out) /\ call.out.e.shape = "list"
    /\ Len(call.out.e.message) = 2

\* C7: when a validator raises a ValidationError whose message is a mapping
\* (and the validators before it returned or raised flat validation errors),
\* load raises exactly that error: the failures collected before it are not in
\* it and no validator after it is run.
C7_MappingErrorAlone ==
    (call.op = "load" /\ call.value \notin {missing, None}) =>
        LET me == call.me
            conv == Load_(me, call.value)
            vs == ValidatorsOf(Obj(me))
            res(n) == CallValidator(vs[n], conv.v)
            Flat(n) == \/ res(n).k = "return"
                       \/ (res(n).e.type = "ValidationError" /\ res(n).e.shape # "dict")
            Mapping(n) == /\ res(n).k = "raise" /\ res(n).e.type = "ValidationError"
                          /\ res(n).e.shape = "dict"
        IN \A m \in 1..Len(vs) :
              (conv.k = "return" /\ Mapping(m) /\ \A n \in 1..(m - 1) : Flat(n)) =>
                 /\ IsValidationError(call.out)
                 /\ call.out.e.shape = "dict"
                 /\ call.out.e = res(m).e
                 /\ Len(call.trace) = 1 + m
                 /\ \A n \in 1..m : call.trace[n + 1] = Ev("validator", n, conv.v)

\* C7 witness: the second validator raised a mapping error after the first had
\* failed, and load raised the mapping error.
C7_Witness ==
    /\ call.op = "load" /\ call.value \notin {missing, None}
    /\ Len(ValidatorsOf(Obj(call.me))) >= 2
    /\ ValidatorsOf(Obj(call.me))[1].beh = "false"
    /\ ValidatorsOf(Obj(call.me))[2].beh = "mapping"
    /\ Load_(call.me, call.value).k = "return"
    /\ IsValidationError(call.out) /\ call.out.e.shape = "dict"

\* C9: dump runs no validator and applies neither the null nor the required
\* check: dump(missing) returns get_default() also for a required field,
\* dump(None) returns None whatever allow_none is, any other value goes to
\* _dump only and the result of _dump is the result of dump; an IntegerField
\* dumps an integer outside its min_value/max_value unchanged.
C9_DumpUnchecked ==
    call.op = "dump" =>
        LET kw == made[call.me.id].kw
            default == IF callable(kw.default) THEN IntV(kw.default.i) ELSE kw.default
        IN /\ \A n \in 1..Len(call.trace) : call.trace[n].ev \in {"_dump", "default"}
           /\ call.value = missing => (call.out.k = "return" /\ call.out.v = default)
           /\ call.value = None =>
                (call.out.k = "return" /\ call.out.v = None /\ call.trace = <<>>)
           /\ call.value \notin {missing, None} =>
                /\ call.trace = <<Ev("_dump", 0, call.value)>>
                /\ call.out.k = Dump_(call.me, call.value).k
                /\ call.out.k = "return" => call.out.v = Dump_(call.me, call.value).v
                /\ (Obj(call.me).cls = "IntegerField" /\ call.value.t = "int") =>
                      (call.out.k = "return" /\ call.out.v = call.value)

\* C9 witness: an IntegerField with min_value=1 has dumped 0 as 0.
C9_Witness ==
    /\ call.op = "dump" /\ call.value = IntV(0)
    /\ Obj(call.me).cls = "IntegerField"
    /\ Obj(call.me).min_value = IntV(1)
    /\ call.out.k = "return" /\ call.out.v = IntV(0)

\* The field of the last call was constructed with no argument.
DefaultConfigured ==
    /\ made[call.me.id].kw = DefaultKw
    /\ made[call.me.id].validators = <<>>

\* The last call dumped a value of the field's natural type: a text with a
\* StringField, an integer with an IntegerField.
DumpedNatural ==
    /\ call.op = "dump"
    /\ DefaultConfigured
    /\ \/ Obj(call.me).cls = "StringField" /\ call.value.t = "str"
       \/ Obj(call.me).cls = "IntegerField" /\ call.value.t = "int"

LoadedText ==
    /\ call.op = "load"
    /\ Obj(call.me).cls = "StringField"
    /\ call.value.t = "str"
    /\ ValidatorsOf(Obj(call.me)) = <<>>

\* `text` is what is left of the last call's text once the whitespace around
\* it is removed.
TrimmedIs(text) ==
    \E pre, post \in 0..Len(call.value.s) :
        /\ pre + post <= Len(call.value.s)
        /\ \A n \in 1..pre : IsSpace(call.value.s[n])
        /\ \A n \in 1..post : IsSpace(call.value.s[Len(call.value.s) - n + 1])
        /\ text = SubSeq(call.value.s, pre + 1, Len(call.value.s) - post)
        /\ text # <<>> => (~IsSpace(Head(text)) /\ ~IsSpace(text[Len(text)]))

\* The text of the last call is empty, after trimming when trim_whitespace.
EmptyText ==
    IF made[call.me.id].kw.trim_whitespace THEN TrimmedIs(<<>>)
    ELSE call.value.s = <<>>

C1_LoadEveryField ==
    (call.op = "_load_single" /\ call.data.t = "dict") =>
        LET fields == contracts[call.me.id].load_fields
            loads == SelectSeq(call.trace, LAMBDA e : e.ev = "load")
            Configuration(out) ==
                out.k = "raise" /\ out.e.type \in {"AssertionError", "ValueError"}
            failed == {n \in 1..Len(loads) : loads[n].out.k = "raise"}
        IN (\A n \in 1..Len(loads) : ~Configuration(loads[n].out)) =>
              /\ Len(loads) = Len(fields)
              /\ \A n \in 1..Len(loads) : loads[n].n = fields[n]
              /\ failed # {} =>
                   /\ IsValidationError(call.out)
                   /\ call.out.e.shape = "dict"
                   /\ DOMAIN call.out.e.message =
                          {heap[fields[n]].field_name : n \in failed}
                   /\ \A m \in 1..Len(call.trace) : call.trace[m].ev # "post_load"

\* C4: in a pass of a contract constructed with partial=True, load(missing)
\* on a field returns missing without failing, even if the field is
\* required; so _load_single of a partial contract on a mapping that lacks
\* keys succeeds when the fields that are present load, and its result has no
\* entry for the lacking keys.  (Stated as claimed: the code does not satisfy
\* it.)
C4_PartialLoad ==
    (call.op = "_load_single" /\ call.data.t = "dict"
        /\ contracts[call.me.id].partial) =>
        LET loads == SelectSeq(call.trace, LAMBDA e : e.ev = "load")
            lacking == {n \in 1..Len(loads) : loads[n].arg = missing}
        IN /\ \A n \in lacking :
                loads[n].out.k = "return" /\ loads[n].out.v = missing
           /\ (\A n \in (1..Len(loads)) \ lacking : loads[n].out.k = "return") =>
                /\ call.out.k = "return"
                /\ \A n \in lacking :
                      heap[loads[n].n].field_name \notin DOMAIN call.out.v

\* C8: _fail(kind) with a kind that is no key of error_messages raises an
\* AssertionError, never a ValidationError.  In _load_single, a field's load
\* that raises an exception other than a ValidationError (the AssertionError
\* of _fail in a field's _load, or the exception of a validator) ends the
\* pass at once with that exception: no field after it is loaded, the
\* exception is not put into an aggregated validation error, and post_load
\* is not called.
C8_ConfigurationErrorAborts ==
    /\ (call.op = "_fail" /\ call.key \notin DOMAIN Obj(call.me).error_messages) =>
          (call.out.k = "raise" /\ call.out.e.type = "AssertionError")
    /\ (call.op = "_load_single" /\ call.data.t = "dict") =>
          LET loads == SelectSeq(call.trace, LAMBDA e : e.ev = "load") IN
          \A n \in 1..Len(loads) :
             LET self == heap[loads[n].n]
                 arg == loads[n].arg
                 out == loads[n].out
             IN /\ (/\ self.cls = "UserField" /\ arg \notin {missing, None}
                    /\ self.fail_key \notin DOMAIN self.error_messages) =>
                      (out.k = "raise" /\ out.e.type = "AssertionError")
                /\ (/\ self.cls = "IntegerField" /\ arg.t = "int"
                    /\ \E v \in 1..Len(ValidatorsOf(self)) :
                          ValidatorsOf(self)[v].beh = "other") =>
                      (out.k = "raise" /\ out.e.type = "ValueError")
                /\ (out.k = "raise" /\ out.e.type # "ValidationError") =>
                      /\ n = Len(loads)
                      /\ call.out.k = "raise"
                      /\ call.out.e.type = out.e.type
                      /\ call.out.e = out.e
                      /\ \A m \in 1..Len(call.trace) : call.trace[m].ev # "post_load"

\* C8 witness: in a pass over four load fields the first field failed its
\* validation, the third called _fail with an unknown kind, the pass raised
\* the AssertionError and the fourth field, present in the input, was not
\* loaded.
C8_Witness ==
    /\ call.op = "_load_single" /\ call.data.t = "dict"
    /\ Len(contracts[call.me.id].load_fields) = 4
    /\ "d" \in DOMAIN call.data.d
    /\ Len(SelectSeq(call.trace, LAMBDA e : e.ev = "load")) = 3
    /\ IsValidationError(SelectSeq(call.trace, LAMBDA e : e.ev = "load")[1].out)
    /\ SelectSeq(call.trace, LAMBDA e : e.ev = "load")[3].out.e.type = "AssertionError"
    /\ call.out.k = "raise" /\ call.out.e.type = "AssertionError"

\* C10: _dump_single processes the dump fields in order and does not
\* aggregate errors: the first dump field whose dump raises makes the pass
\* raise that same exception at once (no mapping of errors), the dump fields
\* after it are not processed and post_dump is not called; when no dump
\* raises, every dump field is processed and post_dump gives the result.
C10_DumpFailsFast ==
    call.op = "_dump_single" =>
        LET fields == contracts[call.me.id].dump_fields
            dumps == SelectSeq(call.trace, LAMBDA e : e.ev = "dump")
            posted == \E m \in 1..Len(call.trace) : call.trace[m].ev = "post_dump"
        IN /\ Len(dumps) <= Len(fields)
           /\ \A n \in 1..Len(dumps) : dumps[n].n = fields[n]
           /\ \A n \in 1..Len(dumps) :
                dumps[n].out.k = "raise" =>
                   /\ n = Len(dumps)
                   /\ call.out.k = "raise"
                   /\ call.out.e.type = dumps[n].out.e.type
                   /\ call.out.e.shape # "dict"
                   /\ ~posted
           /\ (\A n \in 1..Len(dumps) : dumps[n].out.k = "return") =>
                (Len(dumps) = Len(fields) /\ call.out.k = "return" /\ posted)

\* C10 witness: the first of several dump fields raised ValueError, the pass
\* raised ValueError and processed no other field.
C10_Witness ==
    /\ call.op = "_dump_single"
    /\ Len(contracts[call.me.id].dump_fields) > 1
    /\ Len(SelectSeq(call.trace, LAMBDA e : e.ev = "dump")) = 1
    /\ call.trace[2].ev = "dump" /\ call.trace[2].out.k = "raise"
    /\ call.out.k = "raise" /\ call.out.e.type = "ValueError"

\* C11: key mapping of a pass.  _load_single reads the raw value of each load
\* field under its load_from key and stores the loaded value under the name
\* of the field; _dump_single reads under the name of the field and stores
\* under dump_to; a key absent from the input is read as missing; a field
\* whose result is missing gets no entry in the output, every other result
\* (None included) is stored as it is.
C11_KeyMapping ==
    /\ (call.op = "_load_single" /\ call.data.t = "dict") =>
          LET loads == SelectSeq(call.trace, LAMBDA e : e.ev = "load")
              given == call.given.d
              kept == {n \in 1..Len(loads) : loads[n].out.v # missing}
          IN /\ \A n \in 1..Len(loads) :
                   LET key == heap[loads[n].n].load_from IN
                   loads[n].arg = IF key \in DOMAIN given THEN given[key] ELSE missing
             /\ call.out.k = "return" =>
                   /\ DOMAIN call.result = {heap[loads[n].n].field_name : n \in kept}
                   /\ \A n \in kept :
                         call.result[heap[loads[n].n].field_name] = loads[n].out.v
    /\ call.op = "_dump_single" =>
          LET dumps == SelectSeq(call.trace, LAMBDA e : e.ev = "dump")
              given == call.given.d
              kept == {n \in 1..Len(dumps) : dumps[n].out.v # missing}
          IN /\ \A n \in 1..Len(dumps) :
                   LET key == heap[dumps[n].n].field_name IN
                   dumps[n].arg = IF key \in DOMAIN given THEN given[key] ELSE missing
             /\ call.out.k = "return" =>
                   /\ DOMAIN call.result = {heap[dumps[n].n].dump_to : n \in kept}
                   /\ \A n \in kept :
                         call.result[heap[dumps[n].n].dump_to] = dumps[n].out.v

\* C11 witness: a load of {a: 2, bb: None} returned {a: 2, b: None}: the value
\* read under bb is stored under b, and None is stored.
C11_Witness ==
    /\ call.op = "_load_single" /\ call.data.t = "dict"
    /\ DOMAIN call.data.d = {"a", "bb"}
    /\ call.data.d["bb"] = None
    /\ call.out.k = "return"
    /\ DOMAIN call.result = {"a", "b"}
    /\ call.result["b"] = None

\* C12: _load_single on an input that is no mapping fails with the
\* validation error of kind `invalid`, whose message names the type of the
\* input; neither pre_load nor the load of a field nor post_load is called.
C12_NotAMapping ==
    (call.op = "_load_single" /\ call.data.t # "dict") =>
        /\ IsValidationError(call.out)
        /\ call.out.e.shape = "str"
        /\ call.out.e.message.tpl =
              "Invalid data. Expected a dictionary, but got {datatype}."
        /\ call.out.e.message.args = <<StrV(<<call.data.t>>)>>
        /\ call.trace = <<>>
        /\ ~call.posted.called

\* C12 witness: a contract with load fields was given a list and raised the
\* `invalid` error naming the type list.
C12_Witness ==
    /\ call.op = "_load_single" /\ call.data.t = "list"
    /\ contracts[call.me.id].load_fields # <<>>
    /\ IsValidationError(call.out)
    /\ call.out.e.message.args = <<StrV(<<"list">>)>>

\* C14: with many=True, when the single-item operation succeeds on every
\* item, a load calls pre_load_many once before the first item and
\* post_load_many once after the last, a dump calls pre_dump_many once before
\* the first item and post_dump_many once after the last; the items are
\* processed in input order and the batch returns the list the post hook
\* returns.  (Stated as claimed: the code does not satisfy it.)
C14_BatchHooks ==
    (call.op \in {"_load", "_dump"} /\ contracts[call.me.id].many) =>
        LET pre == IF call.op = "_load" THEN "pre_load_many" ELSE "pre_dump_many"
            post == IF call.op = "_load" THEN "post_load_many" ELSE "post_dump_many"
            items == SelectSeq(call.trace, LAMBDA e : e.ev = "item")
            count == Len(call.data.items)
        IN (\A n \in 1..Len(items) : items[n].out.k = "return") =>
              /\ Len(items) = count
              /\ \A n \in 1..count : items[n].n = n
              /\ Len(call.trace) = count + 2
              /\ call.trace[1].ev = pre
              /\ call.trace[count + 2].ev = post
              /\ call.out.k = "return"
              /\ Len(call.out.v) = count
              /\ \A n \in 1..count : call.out.v[n] = items[n].out.v

\* C15: the second argument _load_single passes to post_load, and
\* _dump_single to post_dump, is the input given to the operation, also when
\* the pre hook returns another value than it received; the first argument
\* is the mapping built from the fields, and the operation returns what the
\* post hook returns.  (Stated as claimed: the code does not satisfy it.)
C15_PostHookArguments ==
    (call.op \in {"_load_single", "_dump_single"} /\ call.posted.called) =>
        /\ call.posted.original_data = call.data
        /\ call.posted.data = call.result
        /\ call.out.k = "return"
        /\ call.out.v =
              IF call.op = "_load_single"
              THEN post_load(call.me, call.posted.data, call.posted.original_data)
              ELSE post_dump(call.me, call.posted.data, call.posted.original_data)

\* C16: Contract._validate runs both the validators and post_validate,
\* whichever of them fails, and raises one mapping-shaped error that loses no
\* failure: the entries of mapping-shaped errors are merged, the messages of
\* a colliding key are kept side by side, flat errors go under the key
\* _contract, so that every message of both paths is in the raised error.
\* (Stated as claimed: the code does not satisfy it.)
C16_ValidateMerges ==
    (call.op = "_validate"
        /\ ~(call.first.k = "raise" /\ call.first.e.type # "ValidationError")) =>
        LET RECURSIVE Messages(_)
            Messages(e) ==
                IF e.shape = "str" THEN {e.message}
                ELSE IF e.shape = "list"
                THEN UNION {Messages(e.message[n]) : n \in 1..Len(e.message)}
                ELSE UNION {Messages(e.message[k]) : k \in DOMAIN e.message}
            Of(out) == IF out.k = "raise" THEN Messages(out.e) ELSE {}
            Flat(out) == out.k = "raise" /\ out.e.shape # "dict"
        IN /\ \E n \in 1..Len(call.trace) : call.trace[n].ev = "post_validate"
           /\ (call.first.k = "return" /\ call.second.k = "return") =>
                 call.out.k = "return"
           /\ (call.first.k = "raise" \/ call.second.k = "raise") =>
                 /\ IsValidationError(call.out)
                 /\ call.out.e.shape = "dict"
                 /\ Of(call.first) \cup Of(call.second) \subseteq Of(call.out)
                 /\ (Flat(call.first) \/ Flat(call.second)) =>
                       "_contract" \in DOMAIN call.out.e.message

\* C22: with many=True, _load loads the items in input order; at the first
\* item whose _load_single raises it raises that item's error as it is, the
\* items after it are not loaded and post_load_many is not called; when every
\* item loads, the result has one entry per input item, in input order.
C22_BatchFailFast ==
    (call.op = "_load" /\ contracts[call.me.id].many) =>
        LET items == SelectSeq(call.trace, LAMBDA e : e.ev = "item")
            count == Len(call.data.items)
            Single(n) == Contract_load_single(call.me, call.data.items[n]).out
            failing == {n \in 1..count : Single(n).k = "raise"}
            posted == \E n \in 1..Len(call.trace) : call.trace[n].ev = "post_load_many"
        IN /\ \A n \in 1..Len(items) :
                /\ items[n].n = n
                /\ items[n].arg = call.data.items[n]
                /\ items[n].out.k = Single(n).k
           /\ IF failing = {}
              THEN /\ Len(items) = count
                   /\ posted
                   /\ call.out.k = "return"
                   /\ Len(call.out.v) = count
                   /\ \A n \in 1..count : call.out.v[n] = Single(n).v
              ELSE /\ Len(items) = CHOOSE n \in failing : \A m \in failing : n <= m
                   /\ ~posted
                   /\ call.out.k = "raise"
                   /\ call.out.e = Single(Len(items)).e

\* C22 witness: a batch of two items whose first item failed with a
\* validation error; the second item was not loaded.
C22_Witness ==
    /\ call.op = "_load" /\ contracts[call.me.id].many
    /\ Len(call.data.items) = 2
    /\ Len(SelectSeq(call.trace, LAMBDA e : e.ev = "item")) = 1
    /\ IsValidationError(call.out)
    /\ call.out.e.shape = "dict"

\* The configuration of a contract instance: its own settings and, for each
\* of its fields, the name, the parent, the keys, the default and the
\* validators the field holds.
Configuration(cid) ==
    [fields |-> contracts[cid].fields,
     load_fields |-> contracts[cid].load_fields,
     dump_fields |-> contracts[cid].dump_fields,
     many |-> contracts[cid].many,
     only |-> contracts[cid].only,
     partial |-> contracts[cid].partial,
     bound |-> [n \in 1..Len(contracts[cid].fields) |->
                  [field_name |-> heap[contracts[cid].fields[n][2]].field_name,
                   parent |-> heap[contracts[cid].fields[n][2]].parent,
                   dump_to |-> heap[contracts[cid].fields[n][2]].dump_to,
                   load_from |-> heap[contracts[cid].fields[n][2]].load_from,
                   default |-> heap[contracts[cid].fields[n][2]].default,
                   validators |-> ValidatorsOf(heap[contracts[cid].fields[n][2]])]]]

\* The operation of the last call, called again now on the same input.
Again ==
    CASE call.op = "_load_single" -> Contract_load_single(call.me, call.data).out
      [] call.op = "_dump_single" -> Contract_dump_single(call.me, call.data).out
      [] call.op = "_load" -> Contract_load(call.me, call.data).out
      [] call.op = "_dump" -> Contract_dump(call.me, call.data).out

\* C21: every load and dump call on a constructed contract, single or
\* batch, succeeding or failing, leaves the configuration of the contract and
\* of its fields as it was before the call, and the same call made again on
\* the same input has the same outcome.
C21_ConfigurationKept ==
    /\ [][call'.op \in {"_load_single", "_dump_single", "_load", "_dump"} =>
            \A cid \in DOMAIN contracts :
                /\ cid \in DOMAIN contracts'
                /\ Configuration(cid)' = Configuration(cid)]_vars
    /\ [](call.op \in {"_load_single", "_dump_single", "_load", "_dump"} =>
            Again = call.out)

\* C21 witness: a load has failed with a validation error; the fields are
\* still bound to the instance and the same load fails the same way.
C21_Witness ==
    /\ call.op = "_load_single"
    /\ IsValidationError(call.out)
    /\ Again = call.out
    /\ \A n \in 1..Len(contracts[call.me.id].fields) :
          heap[contracts[call.me.id].fields[n][2]].parent = call.me

(***************************************************************************)
(* Properties of contract constructions (checked under Spec).              *)
(***************************************************************************)

\* C2: after any sequence of contract constructions every contract instance
\* owns its field objects: the parent of every field of c.fields is c, and no
\* field object belongs to the fields of two instances.  (Stated as claimed:
\* the code does not satisfy it.)
C2_OwnFields ==
    \A c \in DOMAIN contracts :
        LET Owned(i) == {contracts[i].fields[n][2] : n \in 1..Len(contracts[i].fields)}
        IN /\ \A fid \in Owned(c) : heap[fid].parent = ContractRef(c)
           /\ \A other \in DOMAIN contracts \ {c} : Owned(c) \cap Owned(other) = {}

\* C13: for every constructed contract _load_fields is exactly the declared
\* fields selected by `only` that are not dump-only and _dump_fields exactly
\* the selected ones that are not load-only, both in declaration order; a
\* field not selected by `only`, or removed by `exclude`, is in neither list.
\* The constructor call with exclude is Base(exclude=('a',)).  (Stated as
\* claimed: the code does not satisfy it.)
C13_FieldLists ==
    /\ \A c \in DOMAIN contracts :
          LET self == contracts[c]
              Selected(pair) == self.only = <<>> \/ pair[1] \in Range(self.only)
              Ids(pairs) == [n \in 1..Len(pairs) |-> pairs[n][2]]
          IN /\ self.load_fields =
                   Ids(SelectSeq(self.fields,
                                 LAMBDA pair : Selected(pair) /\ ~heap[pair[2]].dump_only))
             /\ self.dump_fields =
                   Ids(SelectSeq(self.fields,
                                 LAMBDA pair : Selected(pair) /\ ~heap[pair[2]].load_only))
    /\ (call.op = "__init__" /\ "exclude" \in call.kwargs.others) =>
          /\ call.out.k = "return"
          /\ 1 \notin Range(contracts[Len(contracts)].load_fields)
          /\ 1 \notin Range(contracts[Len(contracts)].dump_fields)

(***************************************************************************)
(* Properties of class statements (checked under SpecMeta).                *)
(***************************************************************************)
\* The names of the contract bases of the class just defined, the fields it
\* inherits from its i-th base and the fields of its own body.
MetaBases == SelectSeq(call.bases, LAMBDA b : b \in ClassNames(classes))
MetaInherited(i) == ClassOf(classes, MetaBases[i]).fields
MetaOwn == SelectSeq(call.attrs, LAMBDA pair : pair[2] # NotAField)
MetaDeclared == ClassOf(classes, call.name).fields
MetaInheritedNames == UNION {Keys(MetaInherited(i)) : i \in 1..Len(MetaBases)}

\* C17: for every class statement, the declared fields of the class hold
\* every name declared by a base contract class and every name of the class
\* body, once each.  A name stands where its first declaration puts it:
\* the names of the bases in the order the bases are listed, then the names
\* the class body adds, in declaration order.  A name declared again keeps
\* that place and takes the field of its last declaration: the field of the
\* class body, else that of the last listed base that declares it.
C17_DeclaredFields ==
    call.op = "class" =>
        LET pairs == MetaDeclared
            Pos(name) == CHOOSE n \in 1..Len(pairs) : pairs[n][1] = name
            In(name, seq) == CHOOSE n \in 1..Len(seq) : seq[n][1] = name
            \* where the first declaration of a name is: <<base, place>>
            First(name) ==
                IF name \in MetaInheritedNames
                THEN LET i == CHOOSE i \in 1..Len(MetaBases) :
                                 /\ name \in Keys(MetaInherited(i))
                                 /\ \A j \in 1..(i - 1) : name \notin Keys(MetaInherited(j))
                     IN <<i, In(name, MetaInherited(i))>>
                ELSE <<Len(MetaBases) + 1, In(name, MetaOwn)>>
            Before(p, q) == p[1] < q[1] \/ (p[1] = q[1] /\ p[2] < q[2])
            Last(name) ==
                IF name \in Keys(MetaOwn) THEN MetaOwn[In(name, MetaOwn)][2]
                ELSE LET i == CHOOSE i \in 1..Len(MetaBases) :
                                 /\ name \in Keys(MetaInherited(i))
                                 /\ \A j \in (i + 1)..Len(MetaBases) :
                                       name \notin Keys(MetaInherited(j))
                     IN MetaInherited(i)[In(name, MetaInherited(i))][2]
        IN /\ Keys(pairs) = MetaInheritedNames \cup Keys(MetaOwn)
           /\ \A n, m \in 1..Len(pairs) : n # m => pairs[n][1] # pairs[m][1]
           /\ \A x, y \in Keys(pairs) :
                 Pos(x) < Pos(y) <=> Before(First(x), First(y))
           /\ \A x \in Keys(pairs) : pairs[Pos(x)][2] = Last(x)

\* A class with two contract bases that declare the same name, whose body
\* declares an inherited name again and adds a new one.
C17_Witness ==
    /\ call.op = "class"
    /\ Len(MetaBases) = 2
    /\ Keys(MetaInherited(1)) \cap Keys(MetaInherited(2)) # {}
    /\ Keys(MetaOwn) \cap MetaInheritedNames # {}
    /\ Keys(MetaOwn) \ MetaInheritedNames # {}

\* C17 as claimed: the declared fields are the inherited fields, every field
\* of every base among them, followed by the fields of the class body in
\* declaration order.
C17_InheritedThenOwn ==
    call.op = "class" =>
        /\ \A i \in 1..Len(MetaBases) : Range(MetaInherited(i)) \subseteq Range(MetaDeclared)
        /\ Len(MetaDeclared) >= Len(MetaOwn)
        /\ SubSeq(MetaDeclared, Len(MetaDeclared) - Len(MetaOwn) + 1, Len(MetaDeclared))
              = MetaOwn

(***************************************************************************)
(* Properties of Field.bind (checked under SpecBind).                      *)
(***************************************************************************)
\* C18: bind(name, parent) raises ValueError and leaves the field as it was
\* when name is None or empty or parent is not a contract; a valid bind of a
\* field that has no dump_to and no load_from sets field_name, dump_to and
\* load_from to name and parent to parent.  (Stated as claimed: the code
\* does not satisfy it.)
C18_Bind ==
    call.op = "bind" =>
        IF Falsy(call.field_name) \/ call.parent.o # "contract"
        THEN /\ call.out.k = "raise"
             /\ call.out.e.type = "ValueError"
             /\ heap[call.me.id] = call.before
        ELSE (Falsy(call.before.dump_to) /\ Falsy(call.before.load_from)) =>
                /\ call.out.k = "return"
                /\ heap[call.me.id].field_name = call.field_name
                /\ heap[call.me.id].dump_to = call.field_name
                /\ heap[call.me.id].load_from = call.field_name
                /\ heap[call.me.id].parent = call.parent

(***************************************************************************)
(* Properties of field constructions that are passed one list (checked     *)
(* under SpecShare).                                                       *)
(***************************************************************************)
\* C23: constructing a field with bounds appends its range / length
\* validator after the validators the caller supplied and leaves the caller's
\* list as the caller wrote it: the list holds no bound check, every field
\* runs the caller's validators followed by its own single bound check when
\* it has bounds, and no bound check otherwise, so an integer within a
\* field's own bounds is loaded by that field whatever bounds the other
\* fields have.  (Stated as claimed: the code does not satisfy it.)
C23_OwnBoundsOnly ==
    /\ \A n \in 1..Len(lists[1]) : lists[1][n].beh \notin {"range", "length"}
    /\ \A fid \in DOMAIN heap :
          LET self == heap[fid]
              vs == ValidatorsOf(self)
              checks == SelectSeq(vs, LAMBDA v : v.beh \in {"range", "length"})
              own == IF self.cls = "IntegerField"
                        /\ (self.min_value # None \/ self.max_value # None)
                     THEN <<RangeValidator(self.min_value, self.max_value,
                                           self.error_messages)>>
                     ELSE IF self.cls = "StringField"
                        /\ (self.min_length # None \/ self.max_length # None)
                     THEN <<LengthValidator(self.min_length, self.max_length,
                                            self.error_messages)>>
                     ELSE <<>>
          IN /\ checks = own
             /\ vs = SelectSeq(vs, LAMBDA v : v.beh \notin {"range", "length"}) \o own
    /\ (/\ call.op = "load"
        /\ Obj(call.me).cls = "IntegerField"
        /\ call.value.t = "int"
        /\ Obj(call.me).min_value # None => call.value.i >= Obj(call.me).min_value.i
        /\ Obj(call.me).max_value # None => call.value.i <= Obj(call.me).max_value.i)
       => (call.out.k = "return" /\ call.out.v = call.value)

====
